---- MODULE Spec2Model ----
(***************************************************************************)
(* Model of the conversational command-execution core of src/app.js:       *)
(* the DataCache, the Database wrapper over window.db, the view loaders    *)
(* and ToolExecutor (dispatcher and action handlers).                      *)
(*                                                                         *)
(* JavaScript strings are sequences of one-character strings, so that      *)
(* split, padStart, includes and toLowerCase are computed, not assumed.    *)
(* The empty sequence stands for both '' and undefined (both are falsy).   *)
(***************************************************************************)
EXTENDS Integers, Sequences, FiniteSets, TLC

VARIABLES
    connected,              \* Database.isConnected(): window.db is there
    db,                     \* the records window.db holds, per collection
    DataCache,              \* the in-process cache of the four collections
    selectedCalendarDate,   \* the date shown in the schedule panel
    nextId,                 \* the next id window.db assigns
    topic,                  \* the entity kind this conversation is about
    last,                   \* the latest call of ToolExecutor.execute
    inflight,               \* the view refresh suspended at its reads, if any
    chat,                   \* the latest backend reply sendChatMessage handled
    convo,                  \* the chat transcript and the turns of the conversation
    html,                   \* a rendered message and what the entity linker made of it
    nav,                    \* the annotation activated last, the view it switched to and AppState.editingId
    stock,                  \* an inventory item and how each place that shows it classifies it
    aiMode                  \* AppState.aiMode: the mode the selector shows

vars == <<connected, db, DataCache, selectedCalendarDate, nextId, topic, last, inflight,
          chat, convo, html, nav, stock, aiMode>>

\* Largest id the persistence collaborator hands out in the model.
MaxId == 2

\* ------------------------------------------------------------------------
\* Strings
\* ------------------------------------------------------------------------
Empty == <<>>

Truthy(s) == s # Empty

\* JavaScript a || b on strings.
Or(a, b) == IF Truthy(a) THEN a ELSE b

UpperLetters == {"A", "B", "J", "G", "R", "X"}

LowerChar(c) ==
    CASE c = "A" -> "a"
      [] c = "B" -> "b"
      [] c = "J" -> "j"
      [] c = "G" -> "g"
      [] c = "R" -> "r"
      [] c = "X" -> "x"
      [] OTHER -> c

ToLowerCase(s) == [i \in 1..Len(s) |-> LowerChar(s[i])]

\* hay.includes(needle)
Includes(hay, needle) ==
    \E i \in 0..(Len(hay) - Len(needle)) :
        \A j \in 1..Len(needle) : hay[i + j] = needle[j]

\* First index of character c in s, or 0.
IndexOf(s, c) ==
    IF \E i \in 1..Len(s) : s[i] = c
    THEN CHOOSE i \in 1..Len(s) : s[i] = c /\ \A j \in 1..(i - 1) : s[j] # c
    ELSE 0

RECURSIVE Split(_, _)
\* s.split(c)
Split(s, c) ==
    LET i == IndexOf(s, c)
    IN IF i = 0 THEN <<s>>
       ELSE <<SubSeq(s, 1, i - 1)>> \o Split(SubSeq(s, i + 1, Len(s)), c)

\* p.padStart(2, '0')
PadStart2(p) ==
    IF Len(p) >= 2 THEN p
    ELSE IF Len(p) = 1 THEN <<"0">> \o p
    ELSE <<"0", "0">>

\* Digits as characters; NumStr(n) is String(n) for a one-digit n.
DigitChars == <<"1", "2", "3", "4", "5", "6", "7", "8", "9">>

NumStr(n) == <<DigitChars[n]>>

\* ------------------------------------------------------------------------
\* Dates
\* ------------------------------------------------------------------------
\* new Date().toISOString().split('T')[0]: the current calendar day.
Today == <<"2", "0", "2", "4", "-", "1", "2", "-", "2", "5">>

OtherDay == <<"2", "0", "2", "5", "-", "0", "1", "-", "0", "5">>

\* A variant of ConvertDate that leaves out the padStart(2, '0') of month and day.
ConvertDateUnpadded(dateStr) ==
    IF Truthy(dateStr) /\ Includes(dateStr, <<"/">>)
    THEN LET parts == Split(dateStr, "/")
         IN IF Len(parts) = 3 /\ Len(parts[1]) <= 2
            THEN parts[3] \o <<"-">> \o parts[2] \o <<"-">> \o parts[1]
            ELSE dateStr
    ELSE dateStr

\* The DD/MM/YYYY to YYYY-MM-DD conversion of the date-accepting handlers.
ConvertDate(dateStr) ==
    IF Truthy(dateStr) /\ Includes(dateStr, <<"/">>)
    THEN LET parts == Split(dateStr, "/")
         IN IF Len(parts) = 3 /\ Len(parts[1]) <= 2
            THEN parts[3] \o <<"-">> \o PadStart2(parts[2]) \o <<"-">> \o PadStart2(parts[1])
            ELSE dateStr
    ELSE dateStr

\* ------------------------------------------------------------------------
\* Parameters, outcomes, trace events
\* ------------------------------------------------------------------------
\* params.key, with an absent key read as undefined.
Get(params, key) == IF key \in DOMAIN params THEN params[key] ELSE Empty

Kinds == {"patients", "appointments", "deadlines", "inventory"}

\* An event of one handler run: a call into window.db ("db") with how it
\* was answered ("ok", or "throw"), an assignment to DataCache ("cache"), or
\* a render of a view ("view").
Ev(t, op, kind, r) == [t |-> t, op |-> op, kind |-> kind, r |-> r]

LogR(st, t, op, kind, r) == [st EXCEPT !.trace = Append(@, Ev(t, op, kind, r))]

Log(st, t, op, kind) == LogR(st, t, op, kind, "ok")

Answer(ok) == IF ok THEN "ok" ELSE "throw"

\* Outcome {success, message, data}: the message is its template (key) and
\* the text interpolated into it; data is the ids of the records concerned.
\* For a list outcome, shown are the ids listed and more is the "+N more" count.
Outcome(success, key, text, data) ==
    [success |-> success, key |-> key, text |-> text, data |-> data,
     shown |-> <<>>, more |-> 0]

Ok(key, text, data) == Outcome(TRUE, key, text, data)

Fail(key, text) == Outcome(FALSE, key, text, <<>>)

Done(st, outcome) == [st |-> st, outcome |-> outcome]

\* ------------------------------------------------------------------------
\* window.db: the persistence collaborator (external; modelled from its
\* interface: create returns the record with its id, update merges a partial
\* record into the stored one, delete removes by id, getAll pages).
\* A handler run threads a bundle st = [db, cache, sel, nextId, trace].
\* ------------------------------------------------------------------------
WindowDbCreate(st, kind, rec) ==
    Log([st EXCEPT !.db[kind] = Append(@, [id |-> st.nextId] @@ rec),
                   !.nextId = @ + 1],
        "db", "create", kind)

Merge(rec, updates) ==
    [k \in DOMAIN rec |-> IF k \in DOMAIN updates THEN updates[k] ELSE rec[k]]

WindowDbUpdate(st, kind, id, updates) ==
    Log([st EXCEPT !.db[kind] =
            [i \in 1..Len(@) |-> IF @[i].id = id THEN Merge(@[i], updates) ELSE @[i]]],
        "db", "update", kind)

WindowDbDelete(st, kind, id) ==
    Log([st EXCEPT !.db[kind] = SelectSeq(@, LAMBDA r : r.id # id)],
        "db", "delete", kind)

Take(s, n) == IF Len(s) <= n THEN s ELSE SubSeq(s, 1, n)

\* getAllPatients(1000, 0) and its siblings.
GetAllLimit == 1000

WindowDbGetAll(st, kind) == Take(st.db[kind], GetAllLimit)

\* ------------------------------------------------------------------------
\* Database: the wrapper of src/app.js over window.db.
\* conn is Database.isConnected(); ok says whether window.db answers this
\* read (a read that throws is caught by the wrapper and yields []).
\* w is how window.db answers a write: "ok" or "throw".
\* ------------------------------------------------------------------------
\* Database.getPatients / getAppointments / getDeadlines / getInventory.
DatabaseGet(st, conn, ok, kind) ==
    IF ~conn THEN [st |-> st, data |-> <<>>]
    ELSE [st |-> LogR(st, "db", "getAll", kind, Answer(ok)),
          data |-> IF ok THEN WindowDbGetAll(st, kind) ELSE <<>>]

\* Database.createX: throws when not connected, else awaits window.db and
\* returns what it resolves to. w is the answer of window.db: it stores the
\* record ("ok"), rejects ("throw"), or resolves to a failure reply
\* {success: false} and stores nothing ("failed").
DatabaseCreate(st, conn, w, kind, rec) ==
    IF ~conn THEN [st |-> st, threw |-> TRUE, id |-> 0]
    ELSE IF w = "throw" THEN [st |-> LogR(st, "db", "create", kind, "throw"), threw |-> TRUE, id |-> 0]
    ELSE IF w = "failed" THEN [st |-> LogR(st, "db", "create", kind, "failed"), threw |-> FALSE, id |-> 0]
    ELSE [st |-> WindowDbCreate(st, kind, rec), threw |-> FALSE, id |-> st.nextId]

DatabaseUpdate(st, conn, w, kind, id, updates) ==
    IF ~conn THEN [st |-> st, threw |-> TRUE]
    ELSE IF w = "throw" THEN [st |-> LogR(st, "db", "update", kind, "throw"), threw |-> TRUE]
    ELSE IF w = "failed" THEN [st |-> LogR(st, "db", "update", kind, "failed"), threw |-> FALSE]
    ELSE [st |-> WindowDbUpdate(st, kind, id, updates), threw |-> FALSE]

DatabaseDelete(st, conn, w, kind, id) ==
    IF ~conn THEN [st |-> st, threw |-> TRUE]
    ELSE IF w = "throw" THEN [st |-> LogR(st, "db", "delete", kind, "throw"), threw |-> TRUE]
    ELSE IF w = "failed" THEN [st |-> LogR(st, "db", "delete", kind, "failed"), threw |-> FALSE]
    ELSE [st |-> WindowDbDelete(st, kind, id), threw |-> FALSE]

\* Database.searchPatients(query): window.db.searchPatients(query, 20, 0),
\* a case-insensitive substring search on the name.
SearchLimit == 20

DatabaseSearchPatients(st, conn, ok, query) ==
    IF ~conn THEN [st |-> st, data |-> <<>>]
    ELSE [st |-> LogR(st, "db", "search", "patients", Answer(ok)),
          data |-> IF ok
                   THEN Take(SelectSeq(st.db.patients,
                                 LAMBDA p : Includes(ToLowerCase(p.name), ToLowerCase(query))),
                             SearchLimit)
                   ELSE <<>>]

\* ------------------------------------------------------------------------
\* View loaders
\* ------------------------------------------------------------------------
\* renderCalendar(): paints the month grid from DataCache.
renderCalendar(st) == Log(st, "view", "renderCalendar", "calendar")

\* showDateSchedule(date): sets the displayed date and paints the panel
\* from DataCache.
showDateSchedule(st, date) ==
    Log([st EXCEPT !.sel = date], "view", "showDateSchedule", "schedule")

loadTodaySchedule(st) == showDateSchedule(st, Today)

\* The four reads loadStats issues before it suspends.
loadStatsReads(st, conn, ok) ==
    IF ~conn THEN st
    ELSE LogR(LogR(LogR(LogR(st, "db", "getAll", "patients", Answer(ok)),
                        "db", "getAll", "appointments", Answer(ok)),
                   "db", "getAll", "deadlines", Answer(ok)),
              "db", "getLowStock", "inventory", Answer(ok))

\* What loadStats assigns once the four reads have settled.
loadStatsAssign(st, conn, ok) ==
    LET got(kind) == IF conn /\ ok THEN WindowDbGetAll(st, kind) ELSE <<>>
    IN Log([st EXCEPT !.cache.patients = got("patients"),
                      !.cache.appointments = got("appointments"),
                      !.cache.deadlines = got("deadlines")],
           "cache", "loadStats", "stats")

loadStats(st, conn, ok) == loadStatsAssign(loadStatsReads(st, conn, ok), conn, ok)

\* loadDashboard: Promise.all([loadStats(), renderCalendar(),
\* loadTodaySchedule()]). loadStats runs to its first await, then the two
\* synchronous renders run, and only then do the reads of loadStats settle.
loadDashboard(st, conn, ok) ==
    loadStatsAssign(loadTodaySchedule(renderCalendar(loadStatsReads(st, conn, ok))), conn, ok)

loadPatients(st, conn, ok) ==
    LET r == DatabaseGet(st, conn, ok, "patients")
    IN Log(Log([r.st EXCEPT !.cache.patients = r.data], "cache", "loadPatients", "patients"),
           "view", "table", "patients")

loadAppointments(st, conn, ok) ==
    LET r == DatabaseGet(st, conn, ok, "appointments")
    IN Log(Log([r.st EXCEPT !.cache.appointments = r.data],
               "cache", "loadAppointments", "appointments"),
           "view", "table", "appointments")

loadInventory(st, conn, ok) ==
    LET r == DatabaseGet(st, conn, ok, "inventory")
    IN Log(Log([r.st EXCEPT !.cache.inventory = r.data], "cache", "loadInventory", "inventory"),
           "view", "table", "inventory")

\* ------------------------------------------------------------------------
\* Literals of the handlers (one token each: no handler looks inside them)
\* ------------------------------------------------------------------------
Checkup == <<"checkup">>

Scheduled == <<"scheduled">>

Medium == <<"medium">>

High == <<"high">>

Consumables == <<"consumables">>

Unknown == <<"unknown">>

\* parseInt(params.duration) || 30
DefaultDuration == 30

\* parseInt(params.minStock || params.minimumStock) || 10
DefaultMinStock == 10

\* parseInt(params.key) || dflt, for a numeric parameter given as a number.
ParseIntOr(params, key, dflt) ==
    IF key \in DOMAIN params /\ params[key] # 0 THEN params[key] ELSE dflt

\* Array.find: the index of the first element that passes the test, or 0;
\* passes[i] says whether element i passes.
FindIndex(passes) ==
    IF \E i \in 1..Len(passes) : passes[i]
    THEN CHOOSE i \in 1..Len(passes) : passes[i] /\ \A j \in 1..(i - 1) : ~passes[j]
    ELSE 0

\* ------------------------------------------------------------------------
\* ToolExecutor: the create handlers.
\* env = [resolve, write, refresh]: whether window.db answers the reads that
\* resolve the target, how it answers the write, and whether it answers the
\* reads of the refresh that follows.
\* ------------------------------------------------------------------------
createPatient(params, st, conn, env) ==
    LET patient == [name |-> Or(Get(params, "patientName"), Get(params, "name")),
                    dob |-> Or(Get(params, "patientDob"), Get(params, "dob")),
                    phone |-> Get(params, "phone"),
                    email |-> Get(params, "email")]
    IN IF ~Truthy(patient.name)
       THEN Done(st, Fail("PatientNameRequired", Empty))
       ELSE LET w == DatabaseCreate(st, conn, env.write, "patients", patient)
            IN IF w.threw
               THEN Done(w.st, Fail("CreatePatientFailed", Empty))
               ELSE Done(loadStats(loadPatients(w.st, conn, env.refresh), conn, env.refresh),
                         Ok("PatientCreated", patient.name, <<w.id>>))

\* window.db.getPatient({patientNumber}): the patient with that number (the
\* number shown for a patient is its id), as a sequence of zero or one record.
WindowDbGetPatient(st, patientNumber) ==
    SelectSeq(st.db.patients, LAMBDA p : NumStr(p.id) = patientNumber)

\* The refresh that ends createAppointment and createDeadline.
refreshAfterCreate(st, conn, ok, dateStr) ==
    LET s1 == renderCalendar(loadStats(st, conn, ok))
    IN IF s1.sel = dateStr THEN showDateSchedule(s1, dateStr) ELSE loadTodaySchedule(s1)

\* createAppointment once the patient name is known.
createAppointmentNamed(params, st, conn, env, patientName) ==
    LET dateStr == ConvertDate(Get(params, "date"))
        appointment == [patientName |-> patientName,
                        date |-> dateStr,
                        time |-> Get(params, "time"),
                        type |-> Or(Get(params, "type"), Checkup),
                        duration |-> ParseIntOr(params, "duration", DefaultDuration),
                        notes |-> Get(params, "notes"),
                        status |-> Or(Get(params, "status"), Scheduled)]
    IN IF ~Truthy(appointment.patientName)
       THEN Done(st, Fail("PatientNameOrNumberRequired", Empty))
       ELSE IF ~Truthy(appointment.date)
       THEN Done(st, Fail("AppointmentDateRequired", Empty))
       ELSE LET w == DatabaseCreate(st, conn, env.write, "appointments", appointment)
            IN IF w.threw
               THEN Done(w.st, Fail("CreateAppointmentFailed", Empty))
               ELSE Done(refreshAfterCreate(w.st, conn, env.refresh, dateStr),
                         Ok("AppointmentScheduled", patientName, <<w.id>>))

createAppointment(params, st, conn, env) ==
    LET patientName == Or(Get(params, "patientName"), Get(params, "patient"))
        patientNumber == Get(params, "patientNumber")
    IN IF Truthy(patientNumber) /\ ~Truthy(patientName)
       THEN \* look the patient up by number; window.db is used directly
            IF ~conn \/ ~env.resolve
            THEN Done(IF conn THEN LogR(st, "db", "getPatient", "patients", "throw") ELSE st,
                      Fail("PatientLookupFailed", patientNumber))
            ELSE LET s1 == Log(st, "db", "getPatient", "patients")
                     found == WindowDbGetPatient(st, patientNumber)
                 IN IF Len(found) = 0
                    THEN Done(s1, Fail("PatientNumberNotFound", patientNumber))
                    ELSE createAppointmentNamed(params, s1, conn, env, found[1].name)
       ELSE createAppointmentNamed(params, st, conn, env, patientName)

createDeadline(params, st, conn, env) ==
    LET dateStr == ConvertDate(Or(Get(params, "date"), Get(params, "dueDate")))
        deadline == [title |-> Or(Get(params, "title"), Get(params, "description")),
                     date |-> dateStr,
                     dueDate |-> dateStr,
                     priority |-> Or(Get(params, "priority"), Medium),
                     description |-> Get(params, "description")]
    IN IF ~Truthy(deadline.title)
       THEN Done(st, Fail("DeadlineTitleRequired", Empty))
       ELSE LET w == DatabaseCreate(st, conn, env.write, "deadlines", deadline)
            IN IF w.threw
               THEN Done(w.st, Fail("CreateDeadlineFailed", Empty))
               ELSE Done(refreshAfterCreate(w.st, conn, env.refresh, dateStr),
                         Ok("DeadlineCreated", deadline.title, <<w.id>>))

createInventoryItem(params, st, conn, env) ==
    LET minParam == IF "minStock" \in DOMAIN params /\ params["minStock"] # 0
                    THEN "minStock" ELSE "minimumStock"
        item == [name |-> Or(Get(params, "name"), Get(params, "itemName")),
                 category |-> Or(Get(params, "category"), Consumables),
                 quantity |-> ParseIntOr(params, "quantity", 0),
                 minStock |-> ParseIntOr(params, minParam, DefaultMinStock),
                 unit |-> Get(params, "unit")]
    IN IF ~Truthy(item.name)
       THEN Done(st, Fail("ItemNameRequired", Empty))
       ELSE LET w == DatabaseCreate(st, conn, env.write, "inventory", item)
            IN IF w.threw
               THEN Done(w.st, Fail("CreateInventoryItemFailed", Empty))
               ELSE Done(loadStats(loadInventory(w.st, conn, env.refresh), conn, env.refresh),
                         Ok("InventoryItemCreated", item.name, <<w.id>>))

\* ------------------------------------------------------------------------
\* ToolExecutor: the update and delete handlers
\* ------------------------------------------------------------------------
\* A variant of Updates that writes every field of the map, an absent
\* parameter as ''.
UpdatesOverwriting(params, map) ==
    [f \in {m[1] : m \in map} |-> Get(params, (CHOOSE m \in map : m[1] = f)[2])]

\* The updates object: field f is set from params[k] for each <<f, k>> of
\* map whose parameter is truthy.
Updates(params, map) ==
    LET present == {m \in map : Truthy(Get(params, m[2]))}
    IN [f \in {m[1] : m \in present} |->
            Get(params, (CHOOSE m \in present : m[1] = f)[2])]

\* The same for numeric parameters, set when params[k] !== undefined.
NumUpdates(params, map) ==
    LET present == {m \in map : m[2] \in DOMAIN params}
    IN [f \in {m[1] : m \in present} |->
            params[(CHOOSE m \in present : m[1] = f)[2]]]

\* a.title / a.name / a.patientName contains the term, case-insensitively.
Matches(text, term) == Includes(ToLowerCase(text), ToLowerCase(term))

updatePatient(params, st, conn, env) ==
    LET term == Or(Get(params, "patientName"), Get(params, "name"))
        r == DatabaseSearchPatients(st, conn, env.resolve, term)
    IN IF Len(r.data) = 0
       THEN Done(r.st, Fail("PatientNotFound", term))
       ELSE LET patient == r.data[1]
                updates == Updates(params, {<<"name", "newName">>, <<"dob", "newDob">>,
                                            <<"phone", "newPhone">>, <<"email", "newEmail">>})
                w == DatabaseUpdate(r.st, conn, env.write, "patients", patient.id, updates)
            IN IF w.threw
               THEN Done(w.st, Fail("UpdatePatientFailed", Empty))
               ELSE Done(loadPatients(w.st, conn, env.refresh),
                         Ok("PatientUpdated", Or(Get(updates, "name"), patient.name),
                            <<patient.id>>))

deletePatient(params, st, conn, env) ==
    LET term == Or(Get(params, "patientName"), Get(params, "name"))
        r == DatabaseSearchPatients(st, conn, env.resolve, term)
    IN IF Len(r.data) = 0
       THEN Done(r.st, Fail("PatientNotFound", term))
       ELSE LET patient == r.data[1]
                w == DatabaseDelete(r.st, conn, env.write, "patients", patient.id)
            IN IF w.threw
               THEN Done(w.st, Fail("DeletePatientFailed", Empty))
               ELSE Done(loadStats(loadPatients(w.st, conn, env.refresh), conn, env.refresh),
                         Ok("PatientDeleted", patient.name, <<patient.id>>))

\* The appointment that updateAppointment and deleteAppointment select.
matchAppointment(appointments, params) ==
    FindIndex([k \in 1..Len(appointments) |->
                  /\ Matches(appointments[k].patientName, Get(params, "patientName"))
                  /\ \/ appointments[k].date = Get(params, "date")
                     \/ ~Truthy(Get(params, "date"))])

updateAppointment(params, st, conn, env) ==
    LET r == DatabaseGet(st, conn, env.resolve, "appointments")
        i == matchAppointment(r.data, params)
    IN IF i = 0
       THEN Done(r.st, Fail("AppointmentNotFound", Empty))
       ELSE LET match == r.data[i]
                updates == Updates(params, {<<"date", "newDate">>, <<"time", "newTime">>,
                                            <<"type", "newType">>, <<"status", "newStatus">>,
                                            <<"notes", "newNotes">>})
                w == DatabaseUpdate(r.st, conn, env.write, "appointments", match.id, updates)
            IN IF w.threw
               THEN Done(w.st, Fail("UpdateAppointmentFailed", Empty))
               ELSE Done(loadDashboard(w.st, conn, env.refresh),
                         Ok("AppointmentUpdated", match.patientName, <<match.id>>))

deleteAppointment(params, st, conn, env) ==
    LET r == DatabaseGet(st, conn, env.resolve, "appointments")
        i == matchAppointment(r.data, params)
    IN IF i = 0
       THEN Done(r.st, Fail("AppointmentNotFoundFor", Or(Get(params, "patientName"), Unknown)))
       ELSE LET match == r.data[i]
                w == DatabaseDelete(r.st, conn, env.write, "appointments", match.id)
            IN IF w.threw
               THEN Done(w.st, Fail("DeleteAppointmentFailed", Empty))
               ELSE Done(loadDashboard(w.st, conn, env.refresh),
                         Ok("AppointmentDeleted", match.patientName, <<match.id>>))

updateDeadline(params, st, conn, env) ==
    LET term == Or(Get(params, "title"), Get(params, "oldTitle"))
        r == DatabaseGet(st, conn, env.resolve, "deadlines")
        i == FindIndex([k \in 1..Len(r.data) |-> Matches(r.data[k].title, term)])
    IN IF i = 0
       THEN Done(r.st, Fail("DeadlineNotFound", term))
       ELSE LET match == r.data[i]
                updates == Updates(params, {<<"title", "newTitle">>, <<"date", "newDate">>,
                                            <<"priority", "newPriority">>,
                                            <<"description", "newDescription">>})
                w == DatabaseUpdate(r.st, conn, env.write, "deadlines", match.id, updates)
            IN IF w.threw
               THEN Done(w.st, Fail("UpdateDeadlineFailed", Empty))
               ELSE Done(loadDashboard(w.st, conn, env.refresh),
                         Ok("DeadlineUpdated", Or(Get(updates, "title"), match.title),
                            <<match.id>>))

\* A variant of deleteDeadline that refreshes the dashboard after a thrown write.
deleteDeadlineRefreshing(params, st, conn, env) ==
    LET term == Get(params, "title")
        r == DatabaseGet(st, conn, env.resolve, "deadlines")
        i == FindIndex([k \in 1..Len(r.data) |-> Matches(r.data[k].title, term)])
    IN IF i = 0
       THEN Done(r.st, Fail("DeadlineNotFound", Or(term, Unknown)))
       ELSE LET match == r.data[i]
                w == DatabaseDelete(r.st, conn, env.write, "deadlines", match.id)
            IN IF w.threw
               THEN Done(loadDashboard(w.st, conn, env.refresh),
                         Fail("DeleteDeadlineFailed", Empty))
               ELSE Done(loadDashboard(w.st, conn, env.refresh),
                         Ok("DeadlineDeleted", match.title, <<match.id>>))

deleteDeadline(params, st, conn, env) ==
    LET term == Get(params, "title")
        r == DatabaseGet(st, conn, env.resolve, "deadlines")
        i == FindIndex([k \in 1..Len(r.data) |-> Matches(r.data[k].title, term)])
    IN IF i = 0
       THEN Done(r.st, Fail("DeadlineNotFound", Or(term, Unknown)))
       ELSE LET match == r.data[i]
                w == DatabaseDelete(r.st, conn, env.write, "deadlines", match.id)
            IN IF w.threw
               THEN Done(w.st, Fail("DeleteDeadlineFailed", Empty))
               ELSE Done(loadDashboard(w.st, conn, env.refresh),
                         Ok("DeadlineDeleted", match.title, <<match.id>>))

updateInventoryItem(params, st, conn, env) ==
    LET term == Or(Get(params, "name"), Get(params, "itemName"))
        r == DatabaseGet(st, conn, env.resolve, "inventory")
        i == FindIndex([k \in 1..Len(r.data) |-> Matches(r.data[k].name, term)])
    IN IF i = 0
       THEN Done(r.st, Fail("InventoryItemNotFound", term))
       ELSE LET match == r.data[i]
                updates == Updates(params, {<<"name", "newName">>,
                                            <<"category", "newCategory">>,
                                            <<"unit", "newUnit">>})
                           @@ NumUpdates(params, {<<"quantity", "newQuantity">>,
                                                  <<"minStock", "newMinStock">>})
                w == DatabaseUpdate(r.st, conn, env.write, "inventory", match.id, updates)
            IN IF w.threw
               THEN Done(w.st, Fail("UpdateInventoryItemFailed", Empty))
               ELSE Done(loadInventory(w.st, conn, env.refresh),
                         Ok("InventoryItemUpdated", Or(Get(updates, "name"), match.name),
                            <<match.id>>))

deleteInventoryItem(params, st, conn, env) ==
    LET term == Or(Get(params, "name"), Get(params, "itemName"))
        r == DatabaseGet(st, conn, env.resolve, "inventory")
        i == FindIndex([k \in 1..Len(r.data) |-> Matches(r.data[k].name, term)])
    IN IF i = 0
       THEN Done(r.st, Fail("InventoryItemNotFound", term))
       ELSE LET match == r.data[i]
                w == DatabaseDelete(r.st, conn, env.write, "inventory", match.id)
            IN IF w.threw
               THEN Done(w.st, Fail("DeleteInventoryItemFailed", Empty))
               ELSE Done(loadStats(loadInventory(w.st, conn, env.refresh), conn, env.refresh),
                         Ok("InventoryItemDeleted", match.name, <<match.id>>))

\* ------------------------------------------------------------------------
\* ToolExecutor: the read handlers
\* ------------------------------------------------------------------------
Ids(records) == [i \in 1..Len(records) |-> records[i].id]

OkList(key, text, data, shown, more) ==
    [Ok(key, text, Ids(data)) EXCEPT !.shown = Ids(shown), !.more = more]

\* patients.slice(0, 10), inventory.slice(0, 10)
PatientListCap == 10

InventoryListCap == 10

\* upcoming.slice(0, 8)
AppointmentListCap == 8

DeadlineListCap == 8

DigitRank(c) ==
    CASE c = "0" -> 0 [] c = "1" -> 1 [] c = "2" -> 2 [] c = "3" -> 3 [] c = "4" -> 4
      [] c = "5" -> 5 [] c = "6" -> 6 [] c = "7" -> 7 [] c = "8" -> 8 [] c = "9" -> 9
      [] OTHER -> -1

\* A year-month-day string that new Date() parses.
IsCanonicalDate(d) ==
    /\ Len(d) = 10
    /\ d[5] = "-" /\ d[8] = "-"
    /\ \A i \in {1, 2, 3, 4, 6, 7, 9, 10} : DigitRank(d[i]) >= 0

\* new Date(a) < new Date(b); false when either date is unparseable.
DateLess(a, b) ==
    /\ IsCanonicalDate(a) /\ IsCanonicalDate(b)
    /\ \E i \in 1..10 : /\ DigitRank(a[i]) < DigitRank(b[i])
                        /\ \A j \in 1..(i - 1) : a[j] = b[j]

\* new Date(d) >= new Date().setHours(0,0,0,0); an unparseable date compares false.
IsUpcoming(d) == IsCanonicalDate(d) /\ ~DateLess(d, Today)

RECURSIVE InsertByDate(_, _)
\* Pairs <<date, record>> in ascending date order; p goes after its equals.
InsertByDate(sorted, p) ==
    IF sorted = <<>> THEN <<p>>
    ELSE IF DateLess(p[1], Head(sorted)[1])
         THEN <<p>> \o sorted
         ELSE <<Head(sorted)>> \o InsertByDate(Tail(sorted), p)

RECURSIVE SortPairs(_)
SortPairs(pairs) ==
    IF pairs = <<>> THEN <<>>
    ELSE InsertByDate(SortPairs(SubSeq(pairs, 1, Len(pairs) - 1)), pairs[Len(pairs)])

\* [...records].sort by ascending date (stable), over parseable dates.
SortByDate(records, dates) ==
    LET sorted == SortPairs([i \in 1..Len(records) |-> <<dates[i], records[i]>>])
    IN [i \in 1..Len(sorted) |-> sorted[i][2]]

Remaining(n, cap) == IF n > cap THEN n - cap ELSE 0

listPatients(st, conn, env) ==
    LET r == DatabaseGet(st, conn, env.resolve, "patients")
    IN IF Len(r.data) = 0
       THEN Done(r.st, Ok("PatientsNone", Empty, <<>>))
       ELSE Done(r.st, OkList("Patients", Empty, r.data, Take(r.data, PatientListCap),
                              Remaining(Len(r.data), PatientListCap)))

listAppointments(st, conn, env) ==
    LET r == DatabaseGet(st, conn, env.resolve, "appointments")
        kept == SelectSeq(r.data, LAMBDA a : IsUpcoming(a.date))
        upcoming == SortByDate(kept, [k \in 1..Len(kept) |-> kept[k].date])
    IN IF Len(r.data) = 0
       THEN Done(r.st, Ok("AppointmentsNone", Empty, <<>>))
       ELSE IF Len(upcoming) = 0
       THEN Done(r.st, Ok("AppointmentsNoUpcoming", Empty, <<>>))
       ELSE Done(r.st, OkList("UpcomingAppointments", Empty, r.data,
                              Take(upcoming, AppointmentListCap),
                              Remaining(Len(upcoming), AppointmentListCap)))

DeadlineDate(d) == Or(d.date, d.dueDate)

\* listDeadlines shows the first 8 and prints no "+N more" line.
listDeadlines(st, conn, env) ==
    LET r == DatabaseGet(st, conn, env.resolve, "deadlines")
        kept == SelectSeq(r.data, LAMBDA d : IsUpcoming(DeadlineDate(d)))
        upcoming == SortByDate(kept, [k \in 1..Len(kept) |-> DeadlineDate(kept[k])])
    IN IF Len(r.data) = 0
       THEN Done(r.st, Ok("DeadlinesNone", Empty, <<>>))
       ELSE IF Len(upcoming) = 0
       THEN Done(r.st, Ok("DeadlinesNoUpcoming", Empty, <<>>))
       ELSE Done(r.st, OkList("UpcomingDeadlines", Empty, r.data,
                              Take(upcoming, DeadlineListCap), 0))

searchPatients(params, st, conn, env) ==
    LET query == Or(Get(params, "query"), Get(params, "patientName"))
        r == DatabaseSearchPatients(st, conn, env.resolve, query)
    IN IF Len(r.data) = 0
       THEN Done(r.st, Ok("SearchNoPatients", query, <<>>))
       ELSE Done(r.st, OkList(IF Len(r.data) = 1 THEN "FoundPatient" ELSE "FoundPatients",
                              query, r.data, r.data, 0))

getPatient(params, st, conn, env) ==
    LET byNumber == Truthy(Get(params, "patientNumber"))
        byName == ~byNumber /\ Truthy(Get(params, "patientName"))
        r == IF byName
             THEN DatabaseSearchPatients(st, conn, env.resolve, Get(params, "patientName"))
             ELSE [st |-> IF byNumber /\ conn
                          THEN LogR(st, "db", "getPatient", "patients", Answer(env.resolve))
                          ELSE st,
                   data |-> IF byNumber /\ conn /\ env.resolve
                            THEN WindowDbGetPatient(st, Get(params, "patientNumber"))
                            ELSE <<>>]
    IN IF byNumber /\ (~conn \/ ~env.resolve)
       THEN Done(r.st, Fail("GetPatientFailed", Empty))
       ELSE IF Len(r.data) = 0
       THEN Done(r.st, Fail("PatientNotFoundPlain", Empty))
       ELSE Done(r.st, OkList("PatientDetails", r.data[1].name, <<r.data[1]>>, <<r.data[1]>>, 0))

\* The promise of a handler rejects: the fault leaves execute and no outcome is returned.
Escaped == Fail("Uncaught", Empty)

\* A variant of addPatientNote without its try/catch: a throwing write escapes.
addPatientNoteUnguarded(params, st, conn, env) ==
    LET r == DatabaseSearchPatients(st, conn, env.resolve, Get(params, "patientName"))
    IN IF Len(r.data) = 0
       THEN Done(r.st, Fail("PatientNotFound", Get(params, "patientName")))
       ELSE IF ~conn \/ env.write = "throw"
       THEN Done(LogR(r.st, "db", "create", "notes", "throw"), Escaped)
       ELSE Done(WindowDbCreate(r.st, "notes",
                                [patientId |-> r.data[1].id, note |-> Get(params, "note")]),
                 Ok("NoteAdded", r.data[1].name, <<r.data[1].id>>))

\* window.db.addPatientNote / getPatientNotes are called on window.db directly.
addPatientNote(params, st, conn, env) ==
    LET r == DatabaseSearchPatients(st, conn, env.resolve, Get(params, "patientName"))
    IN IF Len(r.data) = 0
       THEN Done(r.st, Fail("PatientNotFound", Get(params, "patientName")))
       ELSE IF ~conn
       THEN Done(r.st, Fail("AddNoteFailed", Empty))
       ELSE IF env.write = "throw"
       THEN Done(LogR(r.st, "db", "create", "notes", "throw"), Fail("AddNoteFailed", Empty))
       ELSE Done(WindowDbCreate(r.st, "notes",
                                [patientId |-> r.data[1].id, note |-> Get(params, "note")]),
                 Ok("NoteAdded", r.data[1].name, <<r.data[1].id>>))

getPatientNotes(params, st, conn, env) ==
    LET r == DatabaseSearchPatients(st, conn, env.resolve, Get(params, "patientName"))
    IN IF Len(r.data) = 0
       THEN Done(r.st, Fail("PatientNotFound", Get(params, "patientName")))
       ELSE LET s1 == Log(r.st, "db", "getNotes", "notes")
                notes == SelectSeq(st.db.notes, LAMBDA n : n.patientId = r.data[1].id)
            IN IF Len(notes) = 0
               THEN Done(s1, Ok("NoNotes", r.data[1].name, <<>>))
               ELSE Done(s1, OkList("Notes", r.data[1].name, notes, notes, 0))

\* window.db.getAppointmentsByDate(dateStr), called on window.db directly.
getAppointmentsByDate(params, st, conn, env) ==
    LET dateStr == ConvertDate(Get(params, "date"))
    IN IF ~conn \/ ~env.resolve
       THEN Done(IF conn THEN LogR(st, "db", "getByDate", "appointments", "throw") ELSE st,
                 Fail("GetAppointmentsFailed", Empty))
       ELSE LET found == SelectSeq(st.db.appointments, LAMBDA a : a.date = dateStr)
                s1 == Log(st, "db", "getByDate", "appointments")
            IN IF Len(found) = 0
               THEN Done(s1, Ok("AppointmentsForDateNone", dateStr, <<>>))
               ELSE Done(s1, OkList("AppointmentsForDate", dateStr, found, found, 0))

getDeadlineDetails(params, st, conn, env) ==
    LET r == DatabaseGet(st, conn, env.resolve, "deadlines")
        i == FindIndex([k \in 1..Len(r.data) |-> Matches(r.data[k].title, Get(params, "title"))])
    IN IF i = 0
       THEN Done(r.st, Fail("DeadlineNotFound", Get(params, "title")))
       ELSE Done(r.st, OkList("DeadlineDetails", r.data[i].title, <<r.data[i]>>, <<r.data[i]>>, 0))

getDeadlinesByDate(params, st, conn, env) ==
    LET dateStr == ConvertDate(Get(params, "date"))
        r == DatabaseGet(st, conn, env.resolve, "deadlines")
        filtered == SelectSeq(r.data, LAMBDA d : DeadlineDate(d) = dateStr)
    IN IF Len(filtered) = 0
       THEN Done(r.st, Ok("DeadlinesForDateNone", dateStr, <<>>))
       ELSE Done(r.st, OkList("DeadlinesForDate", dateStr, filtered, filtered, 0))

searchDeadlines(params, st, conn, env) ==
    LET query == Or(Get(params, "query"), Get(params, "title"))
        r == DatabaseGet(st, conn, env.resolve, "deadlines")
        filtered == SelectSeq(r.data, LAMBDA d : Matches(d.title, query)
                                                  \/ Matches(d.description, query))
    IN IF Len(filtered) = 0
       THEN Done(r.st, Ok("SearchNoDeadlines", query, <<>>))
       ELSE Done(r.st, OkList("FoundDeadlines", query, filtered, filtered, 0))

\* A variant of isLow with a strict comparison.
isLowStrict(i) == i.quantity < (IF i.minStock # 0 THEN i.minStock ELSE DefaultMinStock)

\* (i.quantity || 0) <= (i.minStock || 10)
isLow(i) == i.quantity <= (IF i.minStock # 0 THEN i.minStock ELSE DefaultMinStock)

listInventoryItems(params, st, conn, env) ==
    LET r == DatabaseGet(st, conn, env.resolve, "inventory")
        filtered == IF Truthy(Get(params, "lowStock")) THEN SelectSeq(r.data, isLow) ELSE r.data
    IN IF Len(r.data) = 0
       THEN Done(r.st, Ok("InventoryNone", Empty, <<>>))
       ELSE IF Len(filtered) = 0
       THEN Done(r.st, Ok("LowStockNone", Empty, <<>>))
       ELSE Done(r.st, OkList("Inventory", Empty, filtered, Take(filtered, InventoryListCap),
                              Remaining(Len(filtered), InventoryListCap)))

searchInventory(params, st, conn, env) ==
    LET query == Or(Get(params, "query"), Get(params, "name"))
        r == DatabaseGet(st, conn, env.resolve, "inventory")
        filtered == SelectSeq(r.data, LAMBDA i : Matches(i.name, query)
                                                  \/ Matches(i.category, query))
    IN IF Len(filtered) = 0
       THEN Done(r.st, Ok("SearchNoInventory", query, <<>>))
       ELSE Done(r.st, OkList("FoundInventory", query, filtered, filtered, 0))

\* window.db.getLowStock(): the collaborator's own low-stock query.
WindowDbGetLowStock(st) == SelectSeq(st.db.inventory, LAMBDA i : i.quantity <= i.minStock)

getLowStockItems(params, st, conn, env) ==
    IF ~conn \/ ~env.resolve
    THEN Done(IF conn THEN LogR(st, "db", "getLowStock", "inventory", "throw") ELSE st,
              Fail("GetLowStockFailed", Empty))
    ELSE LET items == WindowDbGetLowStock(st)
             s1 == Log(st, "db", "getLowStock", "inventory")
         IN IF Len(items) = 0
            THEN Done(s1, Ok("LowStockNoneWellStocked", Empty, <<>>))
            ELSE Done(s1, OkList("LowStockItems", Empty, items, items, 0))

HowCanIHelp == <<"How can I help you?">>

answerQuestion(params, st) ==
    Done(st, Ok("Text", Or(Or(Or(Get(params, "response"), Get(params, "answer")),
                               Get(params, "message")), HowCanIHelp), <<>>))

\* ------------------------------------------------------------------------
\* ToolExecutor.execute: the dispatcher
\* ------------------------------------------------------------------------
\* toolName.toLowerCase(), on the tool names of the model.
ToolToLower(toolName) ==
    CASE toolName = "CREATE_PATIENT" -> "create_patient"
      [] toolName = "Delete_Deadline" -> "delete_deadline"
      [] OTHER -> toolName

RegisteredTools ==
    {"create_patient", "edit_patient", "update_patient", "delete_patient",
     "search_patients", "list_patients", "get_patients", "get_patient",
     "add_patient_note", "get_patient_notes",
     "create_appointment", "edit_appointment", "update_appointment",
     "delete_appointment", "list_appointments", "get_appointments", "get_appointment",
     "get_appointments_for_date", "get_appointments_by_date",
     "create_deadline", "edit_deadline", "update_deadline", "delete_deadline",
     "list_upcoming_deadlines", "list_deadlines", "get_deadlines",
     "get_deadline", "get_deadline_details",
     "get_deadlines_for_date", "get_deadlines_by_date", "search_deadlines",
     "create_inventory_item", "add_inventory_item", "edit_inventory_item",
     "update_inventory_item", "delete_inventory_item", "remove_inventory_item",
     "list_inventory_items", "get_inventory", "list_inventory", "search_inventory",
     "get_low_stock", "list_low_stock", "answer_question"}

Processed == <<"I've processed your request. Is there anything else?">>

\* A variant of looksLikeAppointment that is content with either field.
looksLikeAppointmentEither(params) ==
    Truthy(Get(params, "patientName")) \/ Truthy(Get(params, "date"))

\* if (params.patientName && params.date)
looksLikeAppointment(params) ==
    Truthy(Get(params, "patientName")) /\ Truthy(Get(params, "date"))

\* A variant of the default branch without the appointment fallback.
executeDefaultNoFallback(params, st, conn, env) ==
    Done(st, Ok("Text", Or(Or(Get(params, "response"), Get(params, "message")),
                           Processed), <<>>))

\* The default branch of the switch: an unknown tool.
executeDefault(params, st, conn, env) ==
    IF looksLikeAppointment(params)
    THEN createAppointment(params, st, conn, env)
    ELSE Done(st, Ok("Text", Or(Or(Get(params, "response"), Get(params, "message")),
                                Processed), <<>>))

\* The switch over toolName.toLowerCase().
executeSwitch(toolName, params, st, conn, env) ==
    LET t == ToolToLower(toolName)
    IN CASE t = "create_patient" -> createPatient(params, st, conn, env)
         [] t \in {"edit_patient", "update_patient"} -> updatePatient(params, st, conn, env)
         [] t = "delete_patient" -> deletePatient(params, st, conn, env)
         [] t = "search_patients" -> searchPatients(params, st, conn, env)
         [] t \in {"list_patients", "get_patients"} -> listPatients(st, conn, env)
         [] t = "get_patient" -> getPatient(params, st, conn, env)
         [] t = "add_patient_note" -> addPatientNote(params, st, conn, env)
         [] t = "get_patient_notes" -> getPatientNotes(params, st, conn, env)
         [] t = "create_appointment" -> createAppointment(params, st, conn, env)
         [] t \in {"edit_appointment", "update_appointment"} ->
                updateAppointment(params, st, conn, env)
         [] t = "delete_appointment" -> deleteAppointment(params, st, conn, env)
         [] t \in {"list_appointments", "get_appointments"} -> listAppointments(st, conn, env)
         [] t = "get_appointment" ->
                IF looksLikeAppointment(params)
                THEN createAppointment(params, st, conn, env)
                ELSE listAppointments(st, conn, env)
         [] t \in {"get_appointments_for_date", "get_appointments_by_date"} ->
                getAppointmentsByDate(params, st, conn, env)
         [] t = "create_deadline" -> createDeadline(params, st, conn, env)
         [] t \in {"edit_deadline", "update_deadline"} -> updateDeadline(params, st, conn, env)
         [] t = "delete_deadline" -> deleteDeadline(params, st, conn, env)
         [] t \in {"list_upcoming_deadlines", "list_deadlines", "get_deadlines"} ->
                listDeadlines(st, conn, env)
         [] t \in {"get_deadline", "get_deadline_details"} ->
                getDeadlineDetails(params, st, conn, env)
         [] t \in {"get_deadlines_for_date", "get_deadlines_by_date"} ->
                getDeadlinesByDate(params, st, conn, env)
         [] t = "search_deadlines" -> searchDeadlines(params, st, conn, env)
         [] t \in {"create_inventory_item", "add_inventory_item"} ->
                createInventoryItem(params, st, conn, env)
         [] t \in {"edit_inventory_item", "update_inventory_item"} ->
                updateInventoryItem(params, st, conn, env)
         [] t \in {"delete_inventory_item", "remove_inventory_item"} ->
                deleteInventoryItem(params, st, conn, env)
         [] t \in {"list_inventory_items", "get_inventory", "list_inventory"} ->
                listInventoryItems(params, st, conn, env)
         [] t = "search_inventory" -> searchInventory(params, st, conn, env)
         [] t \in {"get_low_stock", "list_low_stock"} -> getLowStockItems(params, st, conn, env)
         [] t = "answer_question" -> answerQuestion(params, st)
         [] OTHER -> executeDefault(params, st, conn, env)

\* A variant of execute that leaves out the connection check.
executeUnguarded(toolName, params, st, conn, env) ==
    executeSwitch(toolName, params, st, conn, env)

\* ToolExecutor.execute(toolName, params)
execute(toolName, params, st, conn, env) ==
    IF ~conn
    THEN Done(st, Fail("DatabaseNotConnected", Empty))
    ELSE executeSwitch(toolName, params, st, conn, env)

\* loadDeadlines: refreshes the deadline cache and sorts it in place by date.
loadDeadlines(st, conn, ok) ==
    LET r == DatabaseGet(st, conn, ok, "deadlines")
    IN Log(Log([r.st EXCEPT !.cache.deadlines =
                   SortByDate(r.data, [k \in 1..Len(r.data) |-> DeadlineDate(r.data[k])])],
               "cache", "loadDeadlines", "deadlines"),
           "view", "table", "deadlines")

\* saveDeadline: the deadline form. editingId = 0 stands for null (a new
\* deadline). On a failed write only a toast is shown.
saveDeadline(editingId, form, st, conn, env) ==
    LET deadline == [title |-> form.title,
                     date |-> form.date,
                     dueDate |-> form.date,
                     priority |-> form.priority,
                     description |-> form.description]
        w == IF editingId # 0
             THEN DatabaseUpdate(st, conn, env.write, "deadlines", editingId, deadline)
             ELSE DatabaseCreate(st, conn, env.write, "deadlines", deadline)
    IN IF w.threw THEN w.st
       ELSE loadDashboard(loadDeadlines(w.st, conn, env.refresh), conn, env.refresh)

\* ------------------------------------------------------------------------
\* The state machine
\* ------------------------------------------------------------------------
Jane == <<"J", "a", "n", "e">>

Bob == <<"B", "o", "b">>

Rep == <<"R", "e", "p">>

Xray == <<"X", "r">>

Glo == <<"G", "l", "o">>

Phone == <<"5", "5", "5">>

Hello == <<"Hello">>

\* 25/12/2024 and 5/1/2025: Today and OtherDay in day/month/year order.
DmyToday == <<"2", "5", "/", "1", "2", "/", "2", "0", "2", "4">>

DmyOtherDay == <<"5", "/", "1", "/", "2", "0", "2", "5">>

EmptyDb ==
    [patients |-> <<>>, appointments |-> <<>>, deadlines |-> <<>>, inventory |-> <<>>,
     notes |-> <<>>]

SeedDb ==
    [patients |-> <<[id |-> 1, name |-> Jane, dob |-> Empty, phone |-> Empty,
                     email |-> Empty]>>,
     appointments |-> <<[id |-> 1, patientName |-> Jane, date |-> Today, time |-> Empty,
                         type |-> Checkup, duration |-> DefaultDuration, notes |-> Empty,
                         status |-> Scheduled]>>,
     deadlines |-> <<[id |-> 1, title |-> Rep, date |-> OtherDay, dueDate |-> OtherDay,
                      priority |-> Medium, description |-> Empty]>>,
     inventory |-> <<[id |-> 1, name |-> Glo, category |-> Consumables, quantity |-> 5,
                      minStock |-> DefaultMinStock, unit |-> Empty]>>,
     notes |-> <<>>]

EmptyCache ==
    [patients |-> <<>>, appointments |-> <<>>, deadlines |-> <<>>, inventory |-> <<>>]

NoParams == [none |-> Empty]

OkEnv == [resolve |-> TRUE, write |-> "ok", refresh |-> TRUE]

\* How window.db answers one handler run. A run stops at its first failed
\* answer (target not resolved, write thrown), so a run is decided by the
\* first answer that goes wrong, if any.
AllEnvs ==
    {OkEnv,
     [OkEnv EXCEPT !.resolve = FALSE],
     [OkEnv EXCEPT !.write = "throw"],
     [OkEnv EXCEPT !.refresh = FALSE]}

UnknownTools == {"schedule_visit", "book"}

CreateTools == {"create_patient", "CREATE_PATIENT", "create_appointment", "create_deadline",
                "create_inventory_item", "add_inventory_item"}

UpdateTools == {"update_patient", "edit_appointment", "update_deadline",
                "update_inventory_item"}

DeleteTools == {"delete_patient", "delete_appointment", "delete_deadline",
                "remove_inventory_item"}

DetailTools == {"get_patient", "get_deadline"}

ReadTools == {"list_patients", "get_appointment", "get_deadlines_by_date", "list_low_stock"}
                \cup DetailTools

\* The tool names whose prefix marks them as data-mutating.
MutatingTools == CreateTools \cup UpdateTools \cup DeleteTools \cup {"add_patient_note"}

ToolNames == MutatingTools \cup ReadTools \cup UnknownTools

\* The tools the assistant proposes in a conversation about one entity kind.
\* Each handler reads and writes one collection; the other collections are
\* touched only by the refresh (loadStats, loadDashboard), which runs under
\* every topic. An unknown tool may stand for an appointment request.
ToolsOf(kind) ==
    CASE kind = "patients" ->
            {"create_patient", "CREATE_PATIENT", "update_patient", "delete_patient",
             "add_patient_note", "list_patients", "get_patient"}
      [] kind = "appointments" ->
            {"create_appointment", "edit_appointment", "delete_appointment",
             "get_appointment"} \cup UnknownTools
      [] kind = "deadlines" ->
            {"create_deadline", "update_deadline", "delete_deadline",
             "get_deadlines_by_date", "get_deadline"}
      [] kind = "inventory" ->
            {"create_inventory_item", "add_inventory_item", "update_inventory_item",
             "remove_inventory_item", "list_low_stock"}

AppointmentParams ==
    {[patientName |-> Jane, date |-> DmyToday],
     [patient |-> Bob, date |-> OtherDay],
     [patientNumber |-> NumStr(1), date |-> DmyOtherDay],
     [patientNumber |-> NumStr(1)],
     [patientName |-> Bob],
     [date |-> Today]}

\* The parameter objects the assistant proposes for a tool.
ParamsOf(toolName) ==
    CASE toolName = "create_patient" -> {[name |-> Bob], [phone |-> Phone]}
      [] toolName = "CREATE_PATIENT" -> {[patientName |-> Bob]}
      [] toolName = "update_patient" ->
             {[patientName |-> Jane, newPhone |-> Phone],
              [patientName |-> Jane, newPhone |-> Empty]}
      [] toolName = "delete_patient" -> {[patientName |-> Jane], [patientName |-> Bob]}
      [] toolName = "create_appointment" -> AppointmentParams
      [] toolName = "get_appointment" -> {[patientName |-> Jane, date |-> DmyToday], NoParams}
      [] toolName = "edit_appointment" ->
             {[patientName |-> Jane, newDate |-> OtherDay],
              [patientName |-> Jane, newDate |-> DmyOtherDay]}
      [] toolName = "delete_appointment" ->
             {[patientName |-> Jane], [patientName |-> Jane, date |-> DmyToday]}
      [] toolName = "create_deadline" ->
             {[title |-> Rep, date |-> DmyToday, priority |-> High],
              [description |-> Xray, dueDate |-> DmyOtherDay],
              [date |-> Today]}
      [] toolName = "update_deadline" ->
             {[title |-> Rep, newDate |-> DmyToday], [title |-> Rep, newTitle |-> Xray]}
      [] toolName = "delete_deadline" -> {[title |-> Rep], [id |-> 2, title |-> Rep]}
      [] toolName = "create_inventory_item" ->
             {[name |-> Xray, quantity |-> 11], [category |-> Consumables]}
      [] toolName = "add_inventory_item" -> {[itemName |-> Xray, quantity |-> 11]}
      [] toolName = "update_inventory_item" -> {[name |-> Glo, newQuantity |-> 10]}
      [] toolName = "remove_inventory_item" -> {[itemName |-> Glo]}
      [] toolName = "add_patient_note" -> {[patientName |-> Jane, note |-> Hello]}
      [] toolName = "get_deadlines_by_date" -> {[date |-> DmyOtherDay]}
      [] toolName = "get_patient" -> {[patientName |-> Bob]}
      [] toolName = "get_deadline" -> {[title |-> Rep]}
      [] toolName = "book" -> {[patientName |-> Jane, date |-> DmyToday], NoParams}
      [] toolName \in UnknownTools ->
             AppointmentParams \cup {[response |-> Hello], [message |-> Hello], NoParams}
      [] OTHER -> {NoParams}

\* The answers of window.db that matter to a tool: a read-only tool issues
\* no write and no refresh, a create handler resolves no target (but for
\* the patient look-up of an appointment).
EnvsOf(toolName) ==
    IF toolName \in ReadTools \ {"get_appointment"}
    THEN {e \in AllEnvs : e.write = "ok" /\ e.refresh}
    ELSE IF toolName \in CreateTools \ {"create_appointment"}
    THEN {e \in AllEnvs : e.resolve}
    ELSE AllEnvs

\* last is the latest call of ToolExecutor.execute, while nothing else has
\* happened since: its arguments, Database.isConnected() at the call, the
\* outcome returned and the events of the run.
NoCall == [tool |-> "none", params |-> NoParams, conn |-> TRUE,
           outcome |-> Ok("None", Empty, <<>>), trace |-> <<>>]

\* ------------------------------------------------------------------------
\* sendChatMessage in tool-mode: the reply of the assistant backend.
\* A text is plain, starts with '{' without being JSON ("braced"), or is
\* the JSON encoding of an object ("object"); '' and undefined are "none".
\* An encoded object carries tool, parameters and, as says, its own
\* response field.
\* ------------------------------------------------------------------------
NoProposal == [tool |-> "", parameters |-> NoParams, says |-> Empty]

NoText == [kind |-> "none", s |-> Empty, obj |-> NoProposal]

Plain(s) == [kind |-> "plain", s |-> s, obj |-> NoProposal]

Braced(s) == [kind |-> "braced", s |-> s, obj |-> NoProposal]

Encoded(obj) == [kind |-> "object", s |-> Empty, obj |-> obj]

TruthyText(text) == text.kind # "none"

\* responseText.trim().startsWith('{')
StartsWithBrace(text) == text.kind \in {"braced", "object"}

\* JSON.parse(text): the object the text encodes, or an exception.
JSONParse(text) == [threw |-> text.kind # "object", value |-> text.obj]

\* parsed = { ...parsed, ...nestedParsed } when parsed.response is a string
\* that parses: the fields of the nested object replace those of the reply.
MergeNested(parsed) ==
    IF TruthyText(parsed.response) /\ ~JSONParse(parsed.response).threw
    THEN LET nested == JSONParse(parsed.response).value
         IN [parsed EXCEPT !.tool = IF nested.tool # "" THEN nested.tool ELSE @,
                           !.parameters = IF nested.parameters # NoParams
                                          THEN nested.parameters ELSE @,
                           !.response = IF Truthy(nested.says) THEN Plain(nested.says) ELSE @]
    ELSE parsed

\* parsed.response || parsed.message || parsed.parameters?.response
ResponseText(parsed) ==
    IF TruthyText(parsed.response) THEN parsed.response
    ELSE IF TruthyText(parsed.message) THEN parsed.message
    ELSE IF Truthy(Get(parsed.parameters, "response"))
         THEN Plain(Get(parsed.parameters, "response"))
         ELSE NoText

Routed(branch, tool, params, text) ==
    [branch |-> branch, tool |-> tool, params |-> params, text |-> text]

\* The if / else-if chain that resolves the parsed reply: which branch runs,
\* the tool and parameters it hands to ToolExecutor.execute, or the text it
\* appends to the transcript.
Route(reply) ==
    LET parsed == MergeNested(reply)
        responseText == ResponseText(parsed)
        jsonParsed == JSONParse(responseText)
    IN IF parsed.tool # "" /\ parsed.tool # "answer_question"
       THEN Routed("tool", parsed.tool, parsed.parameters, NoText)
       ELSE IF TruthyText(responseText)
       THEN IF /\ StartsWithBrace(responseText)
               /\ ~jsonParsed.threw
               /\ jsonParsed.value.tool # ""
               /\ jsonParsed.value.tool # "answer_question"
            THEN Routed("embedded", jsonParsed.value.tool, jsonParsed.value.parameters, NoText)
            ELSE Routed("text", "", NoParams, responseText)
       ELSE IF parsed.success = "false" /\ Truthy(parsed.error)
       THEN Routed("error", "", NoParams, Plain(parsed.error))
       ELSE Routed("generic", "", NoParams, NoText)

Oops == <<"o", "o", "p", "s">>

\* The replies of the backend the model considers.
Proposals ==
    {[tool |-> "delete_patient", parameters |-> [patientName |-> Jane], says |-> Empty],
     [tool |-> "answer_question", parameters |-> [response |-> Hello], says |-> Empty],
     [tool |-> "answer_question", parameters |-> NoParams, says |-> Hello]}

Replies ==
    {reply \in
       [tool : {"", "answer_question", "create_patient"},
        parameters : {NoParams},
        response : {NoText, Plain(Hello), Braced(Hello)} \cup {Encoded(p) : p \in Proposals},
        message : {NoText, Plain(Hello), Encoded([tool |-> "delete_patient",
                                                  parameters |-> [patientName |-> Jane],
                                                  says |-> Empty])},
        success : {"absent", "false"},
        error : {Empty, Oops}] :
       /\ reply.success = "absent" => reply.error = Empty
       /\ TruthyText(reply.message) => reply.success = "absent"}
    \cup
    [tool : {"answer_question", "create_patient"},
     parameters : {[name |-> Bob], [response |-> Hello]},
     response : {NoText} \cup {Encoded(p) : p \in Proposals},
     message : {NoText},
     success : {"absent"},
     error : {Empty}]

NoReply == [tool |-> "", parameters |-> NoParams, response |-> NoText, message |-> NoText,
            success |-> "absent", error |-> Empty]

\* No reply has been handled.
NoChat == [reply |-> NoReply, branch |-> "none", shown |-> NoText]

\* No message has been sent.
NoConvo == [nodes |-> <<>>, turns |-> <<>>]

\* No inventory item has been classified.
NoStock == [item |-> <<>>, row |-> "none", list |-> "none", search |-> "none"]

\* No message has been through the entity linker.
NoPage == [stage |-> "none", text |-> <<>>, once |-> <<>>, twice |-> <<>>]

\* No annotation was activated (the dashboard is shown), no record is being edited.
NoNav == [view |-> "dashboard", editingId |-> 0, clicked |-> [type |-> "none", id |-> 0],
     heard |-> FALSE, timer |-> FALSE]

\* No view refresh is suspended.
NoRead == [loader |-> "none", db |-> EmptyDb]

Bundle == [db |-> db, cache |-> DataCache, sel |-> selectedCalendarDate,
           nextId |-> nextId, trace |-> <<>>]

Install(st) ==
    /\ db' = st.db
    /\ DataCache' = st.cache
    /\ selectedCalendarDate' = st.sel
    /\ nextId' = st.nextId

\* The state after initializeApp: loadDashboard has run once on an empty cache.
\* window.db is exposed by the preload script or it is not: connected is
\* fixed for the session.
Init ==
    /\ connected \in BOOLEAN
    /\ topic \in Kinds
    /\ db \in {EmptyDb, SeedDb}
    /\ nextId = IF db = EmptyDb THEN 1 ELSE 2
    /\ \E ok \in BOOLEAN :
          LET st == loadDashboard([db |-> db, cache |-> EmptyCache, sel |-> Empty,
                                   nextId |-> nextId, trace |-> <<>>], connected, ok)
          IN DataCache = st.cache /\ selectedCalendarDate = st.sel
    /\ last = NoCall
    /\ inflight = NoRead
    /\ chat = NoChat
    /\ convo = NoConvo
    /\ html = NoPage
    /\ nav = NoNav
    /\ stock = NoStock
    /\ aiMode = "mcp"

\* The router hands an action proposal to ToolExecutor.execute.
Dispatch ==
    \E toolName \in ToolsOf(topic) :
      \E params \in ParamsOf(toolName) :
        \E env \in EnvsOf(toolName) :
          \E r \in {execute(toolName, params, Bundle, connected, env)} :
            /\ r.st.nextId <= MaxId + 1
            /\ Install(r.st)
            /\ last' = [tool |-> toolName, params |-> params, conn |-> connected,
                        outcome |-> r.outcome, trace |-> r.st.trace]
            /\ UNCHANGED <<stock, aiMode, connected, topic, inflight, chat, convo, html, nav>>

\* The user saves the deadline form, for a new deadline or one being edited.
SaveDeadline ==
    /\ topic = "deadlines"
    /\ \E editingId \in {0} \cup {DataCache.deadlines[i].id : i \in 1..Len(DataCache.deadlines)} :
      \E form \in {[title |-> Xray, date |-> Today, priority |-> High,
                    description |-> Empty]} :
        \E env \in {e \in AllEnvs : e.resolve} :
          \E st \in {saveDeadline(editingId, form, Bundle, connected, env)} :
            /\ st.nextId <= MaxId + 1
            /\ Install(st)
            /\ last' = NoCall
            /\ UNCHANGED <<stock, aiMode, connected, topic, inflight, chat, convo, html, nav>>

\* The user opens a view (switchView): the dashboard or the view of the
\* kind the conversation is about.
SwitchView ==
    \E viewName \in {"dashboard", topic} :
      \E ok \in BOOLEAN :
        /\ Install(CASE viewName = "dashboard" -> loadDashboard(Bundle, connected, ok)
                     [] viewName = "patients" -> loadPatients(Bundle, connected, ok)
                     [] viewName = "appointments" -> loadAppointments(Bundle, connected, ok)
                     [] viewName = "deadlines" -> loadDeadlines(Bundle, connected, ok)
                     [] viewName = "inventory" -> loadInventory(Bundle, connected, ok))
        /\ last' = NoCall
        /\ UNCHANGED <<stock, aiMode, connected, topic, inflight, chat, convo, html, nav>>

\* The user clicks a day of the calendar (showDateDetails).
ShowDateDetails ==
    \E date \in {Today, OtherDay} :
        /\ selectedCalendarDate' = date
        /\ last' = NoCall
        /\ UNCHANGED <<stock, aiMode, connected, db, DataCache, nextId, topic, inflight, chat, convo, html, nav>>

Next == Dispatch \/ SaveDeadline \/ SwitchView \/ ShowDateDetails

\* ------------------------------------------------------------------------
\* Interleaving: a view refresh suspends at its persistence reads, and a
\* dispatch runs before the refresh resumes.
\* ------------------------------------------------------------------------
\* The loader switchView runs for the view of a kind.
LoaderOf(kind) ==
    CASE kind = "patients" -> "loadPatients"
      [] kind = "appointments" -> "loadAppointments"
      [] kind = "deadlines" -> "loadDeadlines"
      [] OTHER -> "loadInventory"

\* A view refresh calls window.db and suspends at the await; window.db
\* answers with the records it holds now (a read that fails is the
\* business of SwitchView).
StartRefresh ==
    /\ connected
    /\ inflight = NoRead
    /\ \E loader \in {"loadStats", LoaderOf(topic)} :
            inflight' = [loader |-> loader, db |-> db]
    /\ UNCHANGED <<stock, aiMode, connected, db, DataCache, selectedCalendarDate, nextId, topic, last, chat, convo, html, nav>>

\* The suspended refresh resumes with the answer it was given: it assigns
\* the collections it read to DataCache and paints its view.
FinishRefresh ==
    /\ inflight # NoRead
    /\ LET st == [Bundle EXCEPT !.db = inflight.db]
           r == CASE inflight.loader = "loadStats" -> loadStats(st, connected, TRUE)
                  [] inflight.loader = "loadPatients" -> loadPatients(st, connected, TRUE)
                  [] inflight.loader = "loadAppointments" -> loadAppointments(st, connected, TRUE)
                  [] inflight.loader = "loadDeadlines" -> loadDeadlines(st, connected, TRUE)
                  [] OTHER -> loadInventory(st, connected, TRUE)
       IN Install([r EXCEPT !.db = db])
    /\ inflight' = NoRead
    /\ UNCHANGED <<stock, aiMode, connected, topic, last, chat, convo, html, nav>>

\* ------------------------------------------------------------------------
\* The router: sendChatMessage handles one reply of the backend. What it
\* appends to the transcript is, for a dispatched tool, the message of the
\* outcome (kept in last), otherwise the text of the branch.
\* ------------------------------------------------------------------------
SendChatMessage ==
    /\ \E reply \in Replies :
         LET route == Route(reply)
         IN IF route.branch \in {"tool", "embedded"}
            THEN \E env \in EnvsOf(route.tool) :
                   \E r \in {execute(route.tool, route.params, Bundle, connected, env)} :
                     /\ r.st.nextId <= MaxId + 1
                     /\ Install(r.st)
                     /\ last' = [tool |-> route.tool, params |-> route.params,
                                 conn |-> connected, outcome |-> r.outcome,
                                 trace |-> r.st.trace]
                     /\ chat' = [reply |-> reply, branch |-> route.branch, shown |-> NoText]
            ELSE /\ chat' = [reply |-> reply, branch |-> route.branch, shown |-> route.text]
                 /\ last' = NoCall
                 /\ UNCHANGED <<db, DataCache, selectedCalendarDate, nextId>>
    /\ UNCHANGED <<stock, aiMode, connected, topic, inflight, convo, html, nav>>

InitRouter == Init /\ connected /\ topic = "patients"

NextRouter == SendChatMessage

SpecRouter == InitRouter /\ [][NextRouter]_vars

\* ------------------------------------------------------------------------
\* The conversation: sendChatMessage from the user's message to the end of
\* the turn. convo.nodes are the children of #chat-messages in document
\* order; a node is live while it is the element the script created (the
\* closures of its turn still refer to it), and is a re-parsed copy once
\* chatMessages.innerHTML has been assigned.
\* ------------------------------------------------------------------------
\* Largest number of messages the user sends.
MaxTurns == 3

Node(turn, kind, says, marked) ==
    [turn |-> turn, kind |-> kind, says |-> says, marked |-> marked, live |-> TRUE,
     links |-> {}]

\* chatMessages.innerHTML += `...user message...`: the markup of the transcript
\* is parsed again, every child is replaced by a copy, and the user's message
\* is added.
AppendUserMessage(c, turn) ==
    [c EXCEPT !.nodes = Append([i \in 1..Len(c.nodes) |-> [c.nodes[i] EXCEPT !.live = FALSE]],
                               [Node(turn, "user", "message", FALSE) EXCEPT !.live = FALSE])]

\* chatMessages.appendChild(thinkingDiv)
AppendThinking(c, turn) ==
    [c EXCEPT !.nodes = Append(@, Node(turn, "thinking", "thinking", FALSE))]

\* thinkingDiv.remove(): takes the element out of the document if it is in
\* it; the copies made by innerHTML are other elements.
IsThinkingOf(node, turn) == node.turn = turn /\ node.kind = "thinking" /\ node.live

RemoveThinking(c, turn) ==
    IF \E i \in 1..Len(c.nodes) : IsThinkingOf(c.nodes[i], turn)
    THEN [c EXCEPT !.nodes = SelectSeq(@, LAMBDA node : ~IsThinkingOf(node, turn)),
                   !.turns[turn].removed = @ + 1]
    ELSE c

\* addAssistantMessage(chatMessages, message): container.appendChild(div).
\* says names the message, marked whether its text starts with the failure
\* marker.
addAssistantMessage(c, turn, says, marked) ==
    [c EXCEPT !.nodes = Append(@, Node(turn, "assistant", says, marked))]

EndTurn(c, turn) == [c EXCEPT !.turns[turn].stage = "done"]

\* The backend call of the turn has settled with this answer.
Settled(c, turn, answer) == [c EXCEPT !.turns[turn].answer = answer]

\* The synchronous part of sendChatMessage, up to the await of the backend
\* call (or to the return when window.api.chatWithLLM is missing).
\* api: whether window.api offers the call of the mode.
StartTurn(c, mode, api, hangs) ==
    LET turn == Len(c.turns) + 1
        opened == AppendThinking(
                     AppendUserMessage(
                        [c EXCEPT !.turns = Append(@, [mode |-> mode, stage |-> "waiting",
                                                       api |-> api, hangs |-> hangs,
                                                       answer |-> "none", removed |-> 0])],
                        turn),
                     turn)
    IN IF mode = "mcp" /\ ~api
       THEN EndTurn(RemoveThinking(addAssistantMessage(opened, turn, "TroubleConnecting", FALSE),
                                   turn), turn)
       ELSE opened

\* Mutation: the catch removes the placeholder and shows nothing.
CatchChatErrorSilent(c, turn) == EndTurn(RemoveThinking(c, turn), turn)

\* catch (error): thinkingDiv.remove(); addAssistantMessage(getFriendlyError(...))
CatchChatError(c, turn) ==
    EndTurn(addAssistantMessage(RemoveThinking(c, turn), turn, "FriendlyError", TRUE), turn)

\* What callRAGAgent resolves to: the result of window.api.ragQuery, or a
\* failure object when the API is missing or the query throws.
RagAnswers == {"answer", "failure", "throws", "malformed"}

callRAGAgent(api, answer) ==
    IF ~api \/ answer = "throws" THEN "failure" ELSE answer

\* The retrieval branch after the await: the placeholder is removed, a
\* failure is shown as an error, an answer with its sources is appended; a
\* result whose sources cannot be rendered throws into the catch.
FinishRagTurn(c, turn, answer) ==
    LET response == callRAGAgent(c.turns[turn].api, answer)
        cleared == RemoveThinking(Settled(c, turn, response), turn)
    IN CASE response = "failure" ->
               EndTurn(addAssistantMessage(cleared, turn, "RagError", TRUE), turn)
         [] response = "malformed" -> CatchChatError(cleared, turn)
         [] OTHER -> EndTurn(addAssistantMessage(cleared, turn, "RagAnswer", FALSE), turn)

\* What window.api.chatWithLLM does: it rejects, resolves to a string that
\* is no JSON, to null, or to a reply object.
LlmAnswers == {"throws", "text", "null", "object"}

ChatReplies ==
    {[NoReply EXCEPT !.tool = "create_patient", !.parameters = [name |-> Bob]],
     [NoReply EXCEPT !.response = Plain(Hello)],
     [NoReply EXCEPT !.success = "false", !.error = Oops]}

\* The outcomes whose message starts with the failure marker.
MarkedKeys ==
    {"DatabaseNotConnected", "PatientNameRequired", "CreatePatientFailed",
     "PatientNameOrNumberRequired", "PatientLookupFailed", "PatientNumberNotFound",
     "AppointmentDateRequired", "CreateAppointmentFailed", "DeadlineTitleRequired",
     "CreateDeadlineFailed", "AddNoteFailed", "PatientNotFound", "PatientNotFoundPlain",
     "GetPatientFailed", "UpdatePatientFailed", "DeletePatientFailed",
     "AppointmentNotFound", "AppointmentNotFoundFor", "UpdateAppointmentFailed",
     "DeleteAppointmentFailed", "GetAppointmentsFailed", "DeadlineNotFound",
     "UpdateDeadlineFailed", "DeleteDeadlineFailed", "ItemNameRequired",
     "CreateInventoryItemFailed", "InventoryItemNotFound", "UpdateInventoryItemFailed",
     "DeleteInventoryItemFailed", "GetLowStockFailed"}

StartsWithMarker(outcome) == outcome.key \in MarkedKeys

\* The tool-mode branch after the await. A rejected call goes to the catch
\* with the placeholder in place; otherwise the placeholder is removed and
\* the reply is parsed and resolved. Returns the conversation, the state the
\* dispatched handler leaves, and the call of ToolExecutor.execute, if any.
FinishMcpTurn(c, turn, answer, reply, st, conn, env) ==
    LET settled == Settled(c, turn, answer)
        cleared == RemoveThinking(settled, turn)
        route == Route(reply)
        r == execute(route.tool, route.params, st, conn, env)
        quiet(conv) == [convo |-> conv, st |-> st, call |-> NoCall]
    IN CASE answer = "throws" -> quiet(CatchChatError(settled, turn))
         [] answer = "null" -> quiet(CatchChatError(cleared, turn))
         [] answer = "text" ->
               quiet(EndTurn(addAssistantMessage(cleared, turn, "FriendlyResponse", FALSE), turn))
         [] OTHER ->
               CASE route.branch \in {"tool", "embedded"} ->
                      [convo |-> EndTurn(addAssistantMessage(cleared, turn, "Result",
                                                             StartsWithMarker(r.outcome)), turn),
                       st |-> r.st,
                       call |-> [tool |-> route.tool, params |-> route.params, conn |-> conn,
                                 outcome |-> r.outcome, trace |-> r.st.trace]]
                 [] route.branch = "text" ->
                      quiet(EndTurn(addAssistantMessage(cleared, turn, "Text", FALSE), turn))
                 [] route.branch = "error" ->
                      quiet(EndTurn(addAssistantMessage(cleared, turn, "BackendError", TRUE), turn))
                 [] OTHER ->
                      quiet(EndTurn(addAssistantMessage(cleared, turn, "Generic", FALSE), turn))

\* ------------------------------------------------------------------------
\* The conversation as events: the user sends a message; the backend call
\* of a turn settles and the turn runs to its end. A call that hangs never
\* settles.
\* ------------------------------------------------------------------------
SendMessage ==
    /\ Len(convo.turns) < MaxTurns
    /\ \E mode \in {"mcp", "rag"} :
         \E api \in BOOLEAN :
           \E hangs \in {h \in BOOLEAN : h => api} :
              convo' = StartTurn(convo, mode, api, hangs)
    /\ last' = NoCall
    /\ UNCHANGED <<stock, aiMode, connected, db, DataCache, selectedCalendarDate, nextId, topic, inflight, chat, html, nav>>

Waiting(turn) ==
    /\ turn \in 1..Len(convo.turns)
    /\ convo.turns[turn].stage = "waiting"
    /\ ~convo.turns[turn].hangs

\* if (currentMode === 'rag') ... else ...: the branch of the turn's mode.
\* Mutation: the mode is not tested and every reply is resolved as in
\* tool-mode.
FinishTurnToolMode(c, turn, answer, reply, st, conn, env) ==
    FinishMcpTurn(c, turn, IF answer \in LlmAnswers THEN answer ELSE "object", reply,
                  st, conn, env)

\* Mutation: the reply is resolved in the mode that is active when it arrives.
FinishTurnCurrentMode(c, turn, answer, reply, st, conn, env) ==
    IF aiMode = "rag"
    THEN [convo |-> FinishRagTurn(c, turn, answer), st |-> st, call |-> NoCall]
    ELSE FinishMcpTurn(c, turn, IF answer \in LlmAnswers THEN answer ELSE "object", reply,
                       st, conn, env)

FinishTurn(c, turn, answer, reply, st, conn, env) ==
    IF c.turns[turn].mode = "rag"
    THEN [convo |-> FinishRagTurn(c, turn, answer), st |-> st, call |-> NoCall]
    ELSE FinishMcpTurn(c, turn, answer, reply, st, conn, env)

\* The backend call of a waiting turn settles and the turn runs to its end.
\* reply holds the fields of the object the backend answered with.
CompleteTurn(turn) ==
    /\ Waiting(turn)
    /\ \E answer \in IF convo.turns[turn].mode = "rag" THEN RagAnswers ELSE LlmAnswers :
         \E reply \in IF answer \in {"object", "answer"} THEN ChatReplies ELSE {NoReply} :
           \E env \in IF answer \in {"object", "answer"}
                      THEN {e \in AllEnvs : e.refresh} ELSE {OkEnv} :
             \E r \in {FinishTurn(convo, turn, answer, reply, Bundle, connected, env)} :
                /\ r.st.nextId <= MaxId + 1
                /\ Install(r.st)
                /\ convo' = r.convo
                /\ last' = r.call
    /\ UNCHANGED <<stock, aiMode, connected, topic, inflight, chat, html, nav>>

CompleteSomeTurn == \E turn \in 1..MaxTurns : CompleteTurn(turn)

\* The conversation starts on a store that holds records.
InitChat == Init /\ connected /\ topic = "patients" /\ db = SeedDb

NextChat == SendMessage \/ CompleteSomeTurn

SpecChat == InitChat /\ [][NextChat]_vars

\* Every backend call that does not hang settles.
FairChat == SpecChat /\ \A turn \in 1..MaxTurns : WF_vars(CompleteTurn(turn))

\* ------------------------------------------------------------------------
\* Entity linker
\* ------------------------------------------------------------------------
\* A rendered message is a sequence of tokens: a "word" is a maximal run of \w
\* characters, a "sep" a run of other characters, a "tag" one HTML tag of the input
\* and a "placeholder" what stands for a tag during the scans. The linker reads
\* kind and s only. markup says that a token was written as part of an annotation's
\* tags, inside counts the annotations whose link text holds the token.
Word(s) == [kind |-> "word", s |-> s, markup |-> FALSE, inside |-> 0]

Sep(s) == [kind |-> "sep", s |-> s, markup |-> FALSE, inside |-> 0]

Tag(s) == [kind |-> "tag", s |-> s, markup |-> FALSE, inside |-> 0]

\* `__PLACEHOLDER_${placeholderIndex}__`
Placeholder(index) ==
    [kind |-> "placeholder",
     s |-> <<"_", "_", "P", "L", "A", "C", "E", "H", "O", "L", "D", "E", "R", "_">>
           \o (IF index = 0 THEN <<"0">> ELSE NumStr(index)) \o <<"_", "_">>,
     markup |-> FALSE, inside |-> 0]

\* \w of the regular expressions, over the characters of the model.
IsWordChar(c) == c \notin {" ", "/", "-", "<", ">", "=", "\"", "#", ".", ",", ":", "&", ";"}

RECURSIVE Tokenize(_)
\* The tokens of a string without tags.
Tokenize(s) ==
    IF s = <<>> THEN <<>>
    ELSE LET w == IsWordChar(s[1])
             n == CHOOSE k \in 1..Len(s) :
                      /\ \A j \in 1..k : IsWordChar(s[j]) = w
                      /\ (k = Len(s) \/ IsWordChar(s[k + 1]) # w)
         IN <<[kind |-> IF w THEN "word" ELSE "sep", s |-> SubSeq(s, 1, n),
               markup |-> FALSE, inside |-> 0]>>
            \o Tokenize(SubSeq(s, n + 1, Len(s)))

RECURSIVE Flat(_)
\* The characters of a text.
Flat(text) ==
    IF Len(text) = 0 THEN <<>>
    ELSE IF Len(text) = 1 THEN text[1].s
    ELSE LET half == Len(text) \div 2
         IN Flat(SubSeq(text, 1, half)) \o Flat(SubSeq(text, half + 1, Len(text)))

RECURSIVE escapeHtml(_)
\* div.textContent = text; div.innerHTML
escapeHtml(s) ==
    IF s = <<>> THEN <<>>
    ELSE (CASE s[1] = "&" -> <<"&", "a", "m", "p", ";">>
            [] s[1] = "<" -> <<"&", "l", "t", ";">>
            [] s[1] = ">" -> <<"&", "g", "t", ";">>
            [] OTHER -> <<s[1]>>) \o escapeHtml(Tail(s))

\* UI.formatDate: day/month/year of a YYYY-MM-DD date, "-" for no date and
\* "Invalid Date" for anything else.
formatDate(dateStr) ==
    IF ~Truthy(dateStr) THEN <<"-">>
    ELSE LET parts == Split(dateStr, "-")
         IN IF Len(parts) = 3 /\ Len(parts[1]) = 4
            THEN parts[3] \o <<"/">> \o parts[2] \o <<"/">> \o parts[1]
            ELSE <<"Invalid Date">>

EntityLink == <<"e", "n", "t", "i", "t", "y", "-", "l", "i", "n", "k">>

TypeChars(type) ==
    CASE type = "patient" -> <<"p", "a", "t", "i", "e", "n", "t">>
      [] type = "appointment" -> <<"a", "p", "p", "o", "i", "n", "t", "m", "e", "n", "t">>
      [] type = "deadline" -> <<"d", "e", "a", "d", "l", "i", "n", "e">>
      [] type = "inventory" -> <<"i", "n", "v", "e", "n", "t", "o", "r", "y">>

\* <a href="#" class="entity-link T-link" data-type="T" data-id="ID" data-ATTR="VALUE">
AnnotationOpen(type, id, attr, value) ==
    LET class == <<"<", "a", " ", "h", "r", "e", "f", "=", "\"", "#", "\"", " ",
                   "c", "l", "a", "s", "s", "=", "\"">> \o EntityLink \o <<" ">>
                 \o TypeChars(type) \o <<"-", "l", "i", "n", "k">>
        dataType == <<"\"", " ", "d", "a", "t", "a", "-", "t", "y", "p", "e", "=", "\"">>
                    \o TypeChars(type)
        dataId == <<"\"", " ", "d", "a", "t", "a", "-", "i", "d", "=", "\"">> \o NumStr(id)
        dataAttr == <<"\"", " ", "d", "a", "t", "a", "-">> \o attr
        tokens == Tokenize(class) \o Tokenize(dataType) \o Tokenize(dataId)
                  \o Tokenize(dataAttr) \o <<Sep(<<"=", "\"">>)>> \o Tokenize(value)
                  \o <<Sep(<<"\"", ">">>)>>
    IN [i \in 1..Len(tokens) |-> [tokens[i] EXCEPT !.markup = TRUE]]

\* </a>
AnnotationClose ==
    <<[kind |-> "sep", s |-> <<"<", "/">>, markup |-> TRUE, inside |-> 0],
      [kind |-> "word", s |-> <<"a">>, markup |-> TRUE, inside |-> 0],
      [kind |-> "sep", s |-> <<">">>, markup |-> TRUE, inside |-> 0]>>

\* Both sides of a \b: a word character on one side only.
WordLike(token) == token.kind \in {"word", "placeholder"}

\* new RegExp(`\\b${escapeRegex(name)}\\b`, 'gi') matches text at token i.
MatchesAt(text, i, pattern) ==
    /\ Len(pattern) > 0
    /\ i + Len(pattern) - 1 <= Len(text)
    /\ \A j \in 1..Len(pattern) :
          /\ text[i + j - 1].kind = pattern[j].kind
          /\ ToLowerCase(text[i + j - 1].s) = ToLowerCase(pattern[j].s)
    /\ (i = 1 \/ ~WordLike(text[i - 1]))
    /\ (i + Len(pattern) > Len(text) \/ ~WordLike(text[i + Len(pattern)]))

RECURSIVE ReplaceFrom(_, _, _, _)
\* linkedText.replace(regex, match => open + match + '</a>'), from token i on.
ReplaceFrom(text, i, pattern, open) ==
    IF \E k \in i..Len(text) : MatchesAt(text, k, pattern)
    THEN LET k == CHOOSE m \in i..Len(text) :
                      /\ MatchesAt(text, m, pattern)
                      /\ \A j \in i..(m - 1) : ~MatchesAt(text, j, pattern)
         IN SubSeq(text, i, k - 1)
            \o open
            \o [j \in 1..Len(pattern) |-> [text[k + j - 1] EXCEPT !.inside = @ + 1]]
            \o AnnotationClose
            \o ReplaceFrom(text, k + Len(pattern), pattern, open)
    ELSE SubSeq(text, i, Len(text))

RECURSIVE ReplaceTags(_, _)
\* linkedText.replace(/<[^>]+>/g, ...): every tag becomes the next placeholder.
ReplaceTags(text, index) ==
    IF text = <<>> THEN [text |-> <<>>, placeholders |-> <<>>]
    ELSE IF Head(text).kind = "tag"
         THEN LET rest == ReplaceTags(Tail(text), index + 1)
              IN [text |-> <<Placeholder(index)>> \o rest.text,
                  placeholders |-> <<Head(text)>> \o rest.placeholders]
         ELSE LET rest == ReplaceTags(Tail(text), index)
              IN [text |-> <<Head(text)>> \o rest.text, placeholders |-> rest.placeholders]

\* linkedText.replace(placeholder, original): the first occurrence only.
RestoreOne(text, index, original) ==
    IF \E i \in 1..Len(text) : text[i].s = Placeholder(index).s
    THEN LET i == CHOOSE k \in 1..Len(text) :
                      /\ text[k].s = Placeholder(index).s
                      /\ \A j \in 1..(k - 1) : text[j].s # Placeholder(index).s
         IN [text EXCEPT ![i] = [original EXCEPT !.inside = text[i].inside,
                                                 !.markup = text[i].markup]]
    ELSE text

RECURSIVE Restore(_, _, _)
\* placeholders.forEach((original, placeholder) => ...)
Restore(text, placeholders, index) ==
    IF index >= Len(placeholders) THEN text
    ELSE Restore(RestoreOne(text, index, placeholders[index + 1]), placeholders, index + 1)

\* What each scan looks for and writes, in the order of the scans.
PatientScans(cache) ==
    LET linked == SelectSeq(cache.patients, LAMBDA p : Len(p.name) > 2)
    IN [i \in 1..Len(linked) |->
          [pattern |-> Tokenize(linked[i].name),
           open |-> AnnotationOpen("patient", linked[i].id, <<"n", "a", "m", "e">>,
                                   escapeHtml(linked[i].name))]]

AppointmentScans(cache) ==
    LET linked == SelectSeq(cache.appointments,
                            LAMBDA a : /\ Truthy(a.date)
                                       /\ formatDate(a.date) # <<"Invalid Date">>)
    IN [i \in 1..Len(linked) |->
          [pattern |-> Tokenize(formatDate(linked[i].date)),
           open |-> AnnotationOpen("appointment", linked[i].id, <<"d", "a", "t", "e">>,
                                   linked[i].date)]]

DeadlineScans(cache) ==
    LET linked == SelectSeq(cache.deadlines, LAMBDA d : Len(d.title) > 3)
    IN [i \in 1..Len(linked) |->
          [pattern |-> Tokenize(linked[i].title),
           open |-> AnnotationOpen("deadline", linked[i].id, <<"t", "i", "t", "l", "e">>,
                                   escapeHtml(linked[i].title))]]

InventoryScans(cache) ==
    LET linked == SelectSeq(cache.inventory, LAMBDA item : Len(item.name) > 2)
    IN [i \in 1..Len(linked) |->
          [pattern |-> Tokenize(linked[i].name),
           open |-> AnnotationOpen("inventory", linked[i].id, <<"n", "a", "m", "e">>,
                                   escapeHtml(linked[i].name))]]

RECURSIVE Scan(_, _)
\* The forEach loops: each record's replacement works on what the earlier ones left.
Scan(text, scans) ==
    IF scans = <<>> THEN text
    ELSE Scan(ReplaceFrom(text, 1, Head(scans).pattern, Head(scans).open), Tail(scans))

AllScans(cache) ==
    PatientScans(cache) \o AppointmentScans(cache) \o DeadlineScans(cache)
    \o InventoryScans(cache)

\* A variant of linkifyEntityMentions without the early return and without the
\* placeholders for the tags.
linkifyUnprotected(text, cache) ==
    IF text = <<>> THEN text ELSE Scan(text, AllScans(cache))

linkifyEntityMentions(text, cache) ==
    IF text = <<>> THEN text
    ELSE IF Includes(Flat(text), EntityLink) THEN text
    ELSE LET replaced == ReplaceTags(text, 0)
         IN Restore(Scan(replaced.text, AllScans(cache)), replaced.placeholders, 0)

\* The messages handed to the linker: one or two phrases, as formatMarkdown leaves them.
LinkTexts ==
    LET space == Sep(<<" ">>)
        br == Tag(<<"<", "b", "r", ">">>)
        bold == Tag(<<"<", "s", "t", "r", "o", "n", "g", ">">>)
        unbold == Tag(<<"<", "/", "s", "t", "r", "o", "n", "g", ">">>)
        phrases == {<<Word(Jane)>>,
                    <<Word(ToLowerCase(Jane))>>,
                    <<bold, Word(Jane), unbold>>,
                    <<Word(Jane), space, Word(<<"D", "o", "e">>)>>,
                    Tokenize(DmyToday),
                    <<Word(<<"R", "e", "p", "a", "i", "r">>)>>,
                    <<Word(Glo)>>,
                    <<Word(<<"l", "i", "n", "k">>)>>}
    IN phrases
       \cup {p \o <<space>> \o q : p \in phrases, q \in phrases}
       \cup {p \o <<br>> \o q : p \in {<<Word(Jane)>>}, q \in phrases}

\* The caches the linker reads (id and the linked field of each record).
LinkCaches ==
    LET janeDoe == Jane \o <<" ", "D", "o", "e">>
        repair == <<"R", "e", "p", "a", "i", "r">>
        link == <<"l", "i", "n", "k">>
    IN [patients : {<<>>,
                    <<[id |-> 1, name |-> Jane]>>,
                    <<[id |-> 1, name |-> Jane], [id |-> 2, name |-> janeDoe]>>,
                    <<[id |-> 1, name |-> janeDoe], [id |-> 2, name |-> Jane]>>,
                    <<[id |-> 1, name |-> Jane], [id |-> 2, name |-> Jane]>>},
        appointments : {<<>>,
                        <<[id |-> 1, date |-> Today]>>,
                        <<[id |-> 1, date |-> Today], [id |-> 2, date |-> Today]>>},
        deadlines : {<<[id |-> 1, title |-> Rep]>>, <<[id |-> 1, title |-> repair]>>},
        inventory : {<<>>, <<[id |-> 1, name |-> Glo]>>, <<[id |-> 1, name |-> link]>>}]

\* A formatted message is about to be linked against a loaded cache.
InitLinker ==
    /\ connected = TRUE
    /\ DataCache \in LinkCaches
    /\ db = [patients |-> DataCache.patients, appointments |-> DataCache.appointments,
             deadlines |-> DataCache.deadlines, inventory |-> DataCache.inventory,
             notes |-> <<>>]
    /\ selectedCalendarDate = Today
    /\ nextId = 3
    /\ topic = "patients"
    /\ last = NoCall
    /\ inflight = NoRead
    /\ chat = NoChat
    /\ convo = NoConvo
    /\ nav = NoNav
    /\ stock = NoStock
    /\ aiMode = "mcp"
    /\ \E text \in LinkTexts : html = [NoPage EXCEPT !.stage = "rendered", !.text = text]

\* formatted = linkifyEntityMentions(formatted)
LinkMessage ==
    /\ html.stage = "rendered"
    /\ html' = [html EXCEPT !.stage = "linked",
                            !.once = linkifyEntityMentions(html.text, DataCache)]
    /\ UNCHANGED <<stock, aiMode, connected, db, DataCache, selectedCalendarDate, nextId, topic, last,
                   inflight, chat, convo, nav>>

\* The linker applied to its own output.
RelinkMessage ==
    /\ html.stage = "linked"
    /\ html' = [html EXCEPT !.stage = "relinked",
                            !.twice = linkifyEntityMentions(html.once, DataCache)]
    /\ UNCHANGED <<stock, aiMode, connected, db, DataCache, selectedCalendarDate, nextId, topic, last,
                   inflight, chat, convo, nav>>

NextLinker == LinkMessage \/ RelinkMessage

SpecLinker == InitLinker /\ [][NextLinker]_vars

\* ------------------------------------------------------------------------
\* Activating an annotation
\* ------------------------------------------------------------------------
\* parseInt(linkElement.dataset.id); 0 stands for NaN.
ParseInt(s) ==
    IF \E n \in 1..Len(DigitChars) : NumStr(n) = s
    THEN CHOOSE n \in 1..Len(DigitChars) : NumStr(n) = s
    ELSE 0

EntityTypes == {"patient", "appointment", "deadline", "inventory"}

\* linkElement.dataset.type
TypeOf(s) ==
    IF \E type \in EntityTypes : TypeChars(type) = s
    THEN CHOOSE type \in EntityTypes : TypeChars(type) = s
    ELSE "unknown"

\* The view each case of handleEntityLinkClick switches to.
ViewOf(type) ==
    CASE type = "patient" -> "patients"
      [] type = "appointment" -> "appointments"
      [] type = "deadline" -> "deadlines"
      [] type = "inventory" -> "inventory"

\* div.querySelectorAll('.entity-link'): data-type and data-id of the annotations
\* of a linked text (the 20th and the 26th token of an annotation's opening tag).
LinksOf(text) ==
    {[type |-> TypeOf(text[i + 19].s), id |-> ParseInt(text[i + 25].s)] :
        i \in {k \in 1..(Len(text) - 25) : /\ text[k].s = <<"<">>
                                          /\ text[k + 1].s = <<"a">>
                                          /\ text[k + 3].s = <<"h", "r", "e", "f">>}}

\* addAssistantMessage with the message's text: the annotations of the linked text
\* get their click listeners and the element is appended.
addLinkedMessage(c, text, cache) ==
    [c EXCEPT !.nodes = Append(@, [Node(0, "assistant", "text", FALSE) EXCEPT
                                      !.links = LinksOf(linkifyEntityMentions(text, cache))])]

MaxNodes == 2

\* Messages that name a record.
AnswerTexts ==
    {<<Word(Jane), Sep(<<" ">>), Word(<<"o", "k">>)>>, Tokenize(DmyToday), <<Word(Glo)>>}

\* An answer naming a cached record is shown.
ShowAnswer ==
    /\ Len(convo.nodes) < MaxNodes
    /\ \E text \in AnswerTexts : convo' = addLinkedMessage(convo, text, DataCache)
    /\ last' = NoCall
    /\ UNCHANGED <<stock, aiMode, connected, db, DataCache, selectedCalendarDate, nextId, topic, inflight,
                   chat, html, nav>>

\* The user activates an annotation of the transcript. Only the elements
\* addAssistantMessage appended carry its listener; handleEntityLinkClick switches
\* the view (the view's loader runs) and leaves the edit step to a timer.
ActivateLink ==
    /\ ~nav.timer
    /\ \E n \in 1..Len(convo.nodes) :
         \E link \in convo.nodes[n].links :
            IF convo.nodes[n].live /\ link.id # 0 /\ link.type \in EntityTypes
            THEN \E ok \in BOOLEAN :
                   /\ Install(CASE link.type = "patient" -> loadPatients(Bundle, connected, ok)
                                [] link.type = "appointment" ->
                                       loadAppointments(Bundle, connected, ok)
                                [] link.type = "deadline" -> loadDeadlines(Bundle, connected, ok)
                                [] link.type = "inventory" -> loadInventory(Bundle, connected, ok))
                   /\ nav' = [nav EXCEPT !.view = ViewOf(link.type), !.clicked = link,
                                         !.heard = TRUE, !.timer = TRUE]
            ELSE /\ nav' = [nav EXCEPT !.clicked = link, !.heard = FALSE]
                 /\ UNCHANGED <<db, DataCache, selectedCalendarDate, nextId>>
    /\ last' = NoCall
    /\ UNCHANGED <<stock, aiMode, connected, topic, inflight, chat, convo, html>>

\* setTimeout(() => editX(id), 100): the record is looked up in the cache and, when
\* it is there, its modal opens (AppState.editingId = record.id).
EditTimer ==
    /\ nav.timer
    /\ LET records == DataCache[ViewOf(nav.clicked.type)]
       IN nav' = [nav EXCEPT !.timer = FALSE,
                             !.editingId = IF \E i \in 1..Len(records) :
                                                   records[i].id = nav.clicked.id
                                            THEN nav.clicked.id ELSE @]
    /\ last' = NoCall
    /\ UNCHANGED <<stock, aiMode, connected, db, DataCache, selectedCalendarDate, nextId, topic, inflight,
                   chat, convo, html>>

InitLinks == Init /\ connected /\ db = SeedDb /\ topic = "inventory"

\* The user sends one message while annotated answers are on show.
SendOneMessage == Len(convo.turns) = 0 /\ SendMessage

NextLinks == ShowAnswer \/ SendOneMessage \/ SwitchView \/ ActivateLink \/ EditTimer

SpecLinks == InitLinks /\ [][NextLinks]_vars

\* ------------------------------------------------------------------------
\* List actions over collections larger than the display caps
\* ------------------------------------------------------------------------
MaxRecords == 12

\* n records of a kind as window.db holds them: the seed record under the ids 1..n;
\* where the kind is dated, the first one lies in the past.
ManyRecords(kind, n) ==
    LET past == <<"2", "0", "2", "3", "-", "0", "1", "-", "0", "1">>
        seed == SeedDb[kind][1]
    IN [i \in 1..n |->
          IF i = 1 /\ kind = "appointments" THEN [seed EXCEPT !.id = i, !.date = past]
          ELSE IF i = 1 /\ kind = "deadlines"
          THEN [seed EXCEPT !.id = i, !.date = past, !.dueDate = past]
          ELSE [seed EXCEPT !.id = i]]

ListToolsOf(kind) ==
    CASE kind = "patients" -> {"list_patients", "get_patients"}
      [] kind = "appointments" -> {"list_appointments"}
      [] kind = "deadlines" -> {"list_deadlines", "list_upcoming_deadlines"}
      [] kind = "inventory" -> {"list_inventory", "list_inventory_items"}

ListParamsOf(kind) ==
    IF kind = "inventory" THEN {NoParams, [lowStock |-> <<"true">>]} ELSE {NoParams}

\* The application has loaded a collection of up to MaxRecords records.
InitLists ==
    /\ connected = TRUE
    /\ topic \in Kinds
    /\ \E n \in 0..MaxRecords : db = [EmptyDb EXCEPT ![topic] = ManyRecords(topic, n)]
    /\ DataCache = [kind \in Kinds |-> db[kind]]
    /\ selectedCalendarDate = Today
    /\ nextId = Len(db[topic]) + 1
    /\ last = NoCall
    /\ inflight = NoRead
    /\ chat = NoChat
    /\ convo = NoConvo
    /\ html = NoPage
    /\ nav = NoNav
    /\ stock = NoStock
    /\ aiMode = "mcp"

\* A list action of the kind is dispatched.
ListRecords ==
    \E toolName \in ListToolsOf(topic) :
      \E params \in ListParamsOf(topic) :
        \E env \in {OkEnv, [OkEnv EXCEPT !.resolve = FALSE]} :
          \E r \in {execute(toolName, params, Bundle, connected, env)} :
            /\ Install(r.st)
            /\ last' = [tool |-> toolName, params |-> params, conn |-> connected,
                        outcome |-> r.outcome, trace |-> r.st.trace]
            /\ UNCHANGED <<stock, aiMode, connected, topic, inflight, chat, convo, html, nav>>

NextLists == ListRecords

SpecLists == InitLists /\ [][NextLists]_vars

\* ------------------------------------------------------------------------
\* Low-stock classification
\* ------------------------------------------------------------------------
\* A field of an item as persistence returns it: <<>> when the item has no such
\* field, <<n>> for the number n.
Undefined == <<>>

\* a || b on such fields: undefined and 0 are falsy.
OrNum(a, b) == IF a = Undefined \/ a = <<0>> THEN b ELSE a

\* The inventory table: (item.quantity || 0) <= (item.minStock || item.minimumStock || 10)
rowIsLow(item) ==
    OrNum(item.quantity, <<0>>)[1]
        <= OrNum(OrNum(item.minStock, item.minimumStock), <<DefaultMinStock>>)[1]

\* The list and search handlers: (i.quantity || 0) <= (i.minStock || 10)
handlerIsLow(item) ==
    isLow([quantity |-> OrNum(item.quantity, <<0>>)[1],
           minStock |-> OrNum(item.minStock, <<0>>)[1]])

Badge(low) == IF low THEN "low" ELSE "ok"

\* The items persistence may hold: quantities around the thresholds, the threshold
\* under either field name, under both or under none.
StockItems ==
    [quantity : {Undefined, <<0>>, <<5>>, <<10>>, <<11>>},
     minStock : {Undefined, <<0>>, <<3>>, <<10>>},
     minimumStock : {Undefined, <<3>>, <<10>>}]

InitStock ==
    /\ connected = TRUE
    /\ db = SeedDb
    /\ DataCache = [kind \in Kinds |-> db[kind]]
    /\ selectedCalendarDate = Today
    /\ nextId = 2
    /\ topic = "inventory"
    /\ last = NoCall
    /\ inflight = NoRead
    /\ chat = NoChat
    /\ convo = NoConvo
    /\ html = NoPage
    /\ nav = NoNav
    /\ aiMode = "mcp"
    /\ \E item \in StockItems : stock = [NoStock EXCEPT !.item = item]

\* loadInventory renders the item's row of the inventory table.
RenderRow ==
    /\ stock.row = "none"
    /\ stock' = [stock EXCEPT !.row = Badge(rowIsLow(stock.item))]
    /\ UNCHANGED <<connected, db, DataCache, selectedCalendarDate, nextId, topic, last,
                   inflight, chat, convo, html, nav, aiMode>>

\* listInventoryItems marks the item in its list.
ListItem ==
    /\ stock.list = "none"
    /\ stock' = [stock EXCEPT !.list = Badge(handlerIsLow(stock.item))]
    /\ UNCHANGED <<connected, db, DataCache, selectedCalendarDate, nextId, topic, last,
                   inflight, chat, convo, html, nav, aiMode>>

\* searchInventory marks the item in its result.
SearchItem ==
    /\ stock.search = "none"
    /\ stock' = [stock EXCEPT !.search = Badge(handlerIsLow(stock.item))]
    /\ UNCHANGED <<connected, db, DataCache, selectedCalendarDate, nextId, topic, last,
                   inflight, chat, convo, html, nav, aiMode>>

NextStock == RenderRow \/ ListItem \/ SearchItem

SpecStock == InitStock /\ [][NextStock]_vars

\* ------------------------------------------------------------------------
\* Search actions over collections with many matches
\* ------------------------------------------------------------------------
MaxMatches == 22

\* n records of a kind; all but the first carry the seed's name or title.
SearchableRecords(kind, n) ==
    LET records == ManyRecords(kind, n)
    IN [i \in 1..n |->
          IF i # 1 THEN records[i]
          ELSE IF kind = "patients" THEN [records[i] EXCEPT !.name = Bob]
          ELSE IF kind = "deadlines" THEN [records[i] EXCEPT !.title = Xray]
          ELSE [records[i] EXCEPT !.name = Xray]]

SearchKinds == {"patients", "deadlines", "inventory"}

SearchToolOf(kind) ==
    CASE kind = "patients" -> "search_patients"
      [] kind = "deadlines" -> "search_deadlines"
      [] kind = "inventory" -> "search_inventory"

\* The application has loaded a collection of up to MaxMatches records.
InitSearch ==
    /\ connected = TRUE
    /\ topic \in SearchKinds
    /\ \E n \in 0..MaxMatches : db = [EmptyDb EXCEPT ![topic] = SearchableRecords(topic, n)]
    /\ DataCache = [kind \in Kinds |-> db[kind]]
    /\ selectedCalendarDate = Today
    /\ nextId = Len(db[topic]) + 1
    /\ last = NoCall
    /\ inflight = NoRead
    /\ chat = NoChat
    /\ convo = NoConvo
    /\ html = NoPage
    /\ nav = NoNav
    /\ stock = NoStock
    /\ aiMode = "mcp"

\* A search action of the kind is dispatched.
SearchRecords ==
    \E query \in {ToLowerCase(SeedDb[topic][1][IF topic = "deadlines" THEN "title" ELSE "name"]),
                  Xray, Bob} :
      \E env \in {OkEnv, [OkEnv EXCEPT !.resolve = FALSE]} :
        \E r \in {execute(SearchToolOf(topic), [query |-> query], Bundle, connected, env)} :
            /\ Install(r.st)
            /\ last' = [tool |-> SearchToolOf(topic), params |-> [query |-> query],
                        conn |-> connected, outcome |-> r.outcome, trace |-> r.st.trace]
            /\ UNCHANGED <<stock, aiMode, connected, topic, inflight, chat, convo, html, nav>>

NextSearch == SearchRecords

SpecSearch == InitSearch /\ [][NextSearch]_vars

\* ------------------------------------------------------------------------
\* Inventory writes with arbitrary quantities
\* ------------------------------------------------------------------------
\* Quantities an action may carry; parseInt leaves an integer as it is.
Quantities == {-5, 0, 7}

InventoryWriteParams(toolName) ==
    IF toolName = "create_inventory_item"
    THEN {[name |-> Xray, quantity |-> q] : q \in Quantities}
    ELSE {[name |-> Glo, newQuantity |-> q] : q \in Quantities}
         \cup {[name |-> Xray, newQuantity |-> q] : q \in Quantities}
         \cup {[name |-> Glo, newMinStock |-> 3]}

InitInventory == Init /\ connected /\ db = SeedDb /\ topic = "inventory"

\* create_inventory_item or update_inventory_item is dispatched.
WriteInventory ==
    \E toolName \in {"create_inventory_item", "update_inventory_item"} :
      \E params \in InventoryWriteParams(toolName) :
        \E env \in AllEnvs :
          \E r \in {execute(toolName, params, Bundle, connected, env)} :
            /\ r.st.nextId <= MaxId + 1
            /\ Install(r.st)
            /\ last' = [tool |-> toolName, params |-> params, conn |-> connected,
                        outcome |-> r.outcome, trace |-> r.st.trace]
            /\ UNCHANGED <<stock, aiMode, connected, topic, inflight, chat, convo, html, nav>>

NextInventory == WriteInventory

SpecInventory == InitInventory /\ [][NextInventory]_vars

\* ------------------------------------------------------------------------
\* Switching the assistant mode while calls are outstanding
\* ------------------------------------------------------------------------
\* Largest number of messages sent and of mode switches made.
MaxModeTurns == 2

MaxSwitches == 2

SwitchNotes(c) == SelectSeq(c.nodes, LAMBDA node : node.kind = "assistant" /\ node.turn = 0)

\* aiModeSelect 'change': AppState.aiMode = newMode and a note of the switch
\* is appended to the transcript.
SwitchMode ==
    /\ Len(SwitchNotes(convo)) < MaxSwitches
    /\ \E newMode \in {"mcp", "rag"} \ {aiMode} :
          /\ aiMode' = newMode
          /\ convo' = addAssistantMessage(convo, 0, "Switched", FALSE)
    /\ UNCHANGED <<stock, connected, db, DataCache, selectedCalendarDate, nextId, topic,
                   last, inflight, chat, html, nav>>

\* const currentMode = AppState.aiMode || 'mcp': the message is sent in the
\* mode that is active now.
SendInMode ==
    /\ Len(convo.turns) < MaxModeTurns
    /\ \E api \in BOOLEAN :
         \E hangs \in {h \in BOOLEAN : h => api} :
            convo' = StartTurn(convo, aiMode, api, hangs)
    /\ last' = NoCall
    /\ UNCHANGED <<stock, aiMode, connected, db, DataCache, selectedCalendarDate, nextId, topic, inflight, chat, html, nav>>

NextModes == SwitchMode \/ SendInMode \/ CompleteSomeTurn

SpecModes == InitChat /\ [][NextModes]_vars

\* ------------------------------------------------------------------------
\* Update and delete actions that name no record
\* ------------------------------------------------------------------------
\* Largest number of records of the collection.
MaxStored == 3

MutatingToolsOf(kind) ==
    CASE kind = "patients" -> {"update_patient", "delete_patient"}
      [] kind = "appointments" -> {"update_appointment", "delete_appointment"}
      [] kind = "deadlines" -> {"update_deadline", "delete_deadline"}
      [] kind = "inventory" -> {"update_inventory_item", "delete_inventory_item"}

\* The parameter that names the record, and the new values of an update.
TermKeyOf(kind) ==
    CASE kind \in {"patients", "appointments"} -> "patientName"
      [] kind = "deadlines" -> "title"
      [] kind = "inventory" -> "name"

NewValuesOf(kind) ==
    CASE kind = "patients" -> [newPhone |-> Phone]
      [] kind = "appointments" -> [newDate |-> OtherDay]
      [] kind = "deadlines" -> [newTitle |-> Rep]
      [] kind = "inventory" -> [newCategory |-> Rep]

\* No name, an empty name, or the name of the stored records.
TermParams(kind) ==
    {NoParams} \cup {[p \in {TermKeyOf(kind)} |-> term] :
                        term \in {Empty, SeedDb[kind][1][IF kind = "deadlines" THEN "title"
                                                         ELSE IF kind = "inventory" THEN "name"
                                                         ELSE IF kind = "patients" THEN "name"
                                                         ELSE "patientName"]}}

InitUnnamed ==
    /\ connected = TRUE
    /\ topic \in Kinds
    /\ \E n \in 0..MaxStored : db = [EmptyDb EXCEPT ![topic] = ManyRecords(topic, n)]
    /\ DataCache = [kind \in Kinds |-> db[kind]]
    /\ selectedCalendarDate = Today
    /\ nextId = Len(db[topic]) + 1
    /\ last = NoCall
    /\ inflight = NoRead
    /\ chat = NoChat
    /\ convo = NoConvo
    /\ html = NoPage
    /\ nav = NoNav
    /\ stock = NoStock
    /\ aiMode = "mcp"

\* An update or delete action of the kind is dispatched.
MutateRecord ==
    \E toolName \in MutatingToolsOf(topic) :
      \E term \in TermParams(topic) :
        \E env \in AllEnvs :
          LET params == IF toolName \in {"update_patient", "update_appointment",
                                         "update_deadline", "update_inventory_item"}
                        THEN term @@ NewValuesOf(topic) ELSE term
          IN \E r \in {execute(toolName, params, Bundle, connected, env)} :
                /\ Install(r.st)
                /\ last' = [tool |-> toolName, params |-> params, conn |-> connected,
                            outcome |-> r.outcome, trace |-> r.st.trace]
                /\ UNCHANGED <<stock, aiMode, connected, topic, inflight, chat, convo, html, nav>>

NextUnnamed == MutateRecord

SpecUnnamed == InitUnnamed /\ [][NextUnnamed]_vars

\* ------------------------------------------------------------------------
\* Writes the collaborator answers with a failure reply
\* ------------------------------------------------------------------------
\* window.db stores the record, or resolves to {success: false, error}.
ReplyEnvs == {OkEnv, [OkEnv EXCEPT !.write = "failed"]}

InitReplies == Init /\ connected /\ db = SeedDb

\* A create, update or delete action is dispatched and the collaborator
\* answers its write.
WriteWithReply ==
    \E toolName \in ToolsOf(topic) \cap (CreateTools \cup UpdateTools \cup DeleteTools) :
      \E params \in ParamsOf(toolName) :
        \E env \in ReplyEnvs :
          \E r \in {execute(toolName, params, Bundle, connected, env)} :
            /\ r.st.nextId <= MaxId + 1
            /\ Install(r.st)
            /\ last' = [tool |-> toolName, params |-> params, conn |-> connected,
                        outcome |-> r.outcome, trace |-> r.st.trace]
            /\ UNCHANGED <<stock, aiMode, connected, topic, inflight, chat, convo, html, nav>>

NextReplies == WriteWithReply

SpecReplies == InitReplies /\ [][NextReplies]_vars

NextInterleaved == Dispatch \/ StartRefresh \/ FinishRefresh

\* The conversation is about patients (createPatient refreshes through
\* loadPatients and loadStats) and window.db is there.
InitInterleaved == Init /\ connected /\ topic = "patients"

SpecInterleaved == InitInterleaved /\ [][NextInterleaved]_vars

Spec == Init /\ [][Next]_vars

\* ------------------------------------------------------------------------
\* Properties
\* ------------------------------------------------------------------------
Has(params, key) == Truthy(Get(params, key))

WriteOps == {"create", "update", "delete"}

\* The calls into window.db among the events of a run.
DbEvents(trace) == SelectSeq(trace, LAMBDA e : e.t = "db")

\* The assignments to DataCache and the renders among the events of a run.
RefreshEvents(trace) == SelectSeq(trace, LAMBDA e : e.t \in {"cache", "view"})

IsWrite(e, r) == e.t = "db" /\ e.op \in WriteOps /\ e.r = r

WriteThrew(trace) == \E i \in 1..Len(trace) : IsWrite(trace[i], "throw")

\* The collection a create tool adds to.
KindOfCreate(toolName) ==
    CASE ToolToLower(toolName) = "create_patient" -> "patients"
      [] toolName = "create_appointment" -> "appointments"
      [] toolName = "create_deadline" -> "deadlines"
      [] OTHER -> "inventory"

\* C1: while Database.isConnected() is false, execute answers every
\* data-mutating tool (create, edit/update, delete/remove, add) with the
\* "Database not connected" failure at once: no handler runs, no call reaches
\* window.db, and the stored records and DataCache are as before the call.
C1_NotConnectedFailsFast ==
    [][(last'.tool \in MutatingTools /\ ~last'.conn) =>
          /\ ~last'.outcome.success
          /\ last'.outcome.key = "DatabaseNotConnected"
          /\ last'.trace = <<>>
          /\ db' = db
          /\ DataCache' = DataCache]_vars

C1_Witness ==
    /\ last.tool \in DeleteTools /\ ~last.conn /\ ~connected
    /\ last.outcome.key = "DatabaseNotConnected"
    /\ db # EmptyDb

\* C2: an unknown tool whose params carry a non-empty patientName and a
\* non-empty date behaves as create_appointment with the same params: the
\* same outcome, the same calls into window.db with the same answers, and
\* the same stored records, DataCache and displayed date afterwards.
C2_UnknownToolIsCreateAppointment ==
    [][(last'.tool \in UnknownTools /\ Has(last'.params, "patientName")
            /\ Has(last'.params, "date")) =>
          \E env \in AllEnvs :
            LET r == execute("create_appointment", last'.params, Bundle, connected, env)
            IN /\ r.outcome = last'.outcome
               /\ r.st.trace = last'.trace
               /\ r.st.db = db'
               /\ r.st.cache = DataCache'
               /\ r.st.sel = selectedCalendarDate'
               /\ r.st.nextId = nextId']_vars

C2_Witness ==
    /\ last.tool \in UnknownTools
    /\ Has(last.params, "patientName") /\ Has(last.params, "date")
    /\ last.outcome.key = "AppointmentScheduled"
    /\ \E i \in 1..Len(db.appointments) : db.appointments[i].id = last.outcome.data[1]

\* C3: an unknown tool whose params carry a date and a patient under any key
\* create_appointment accepts (patientName, patient or patientNumber) is
\* treated as an appointment request: it is not answered with the generic
\* text outcome.
C3_FallbackAcceptsEveryPatientKey ==
    (/\ last.tool \in UnknownTools /\ last.conn
     /\ Has(last.params, "date")
     /\ \/ Has(last.params, "patientName")
        \/ Has(last.params, "patient")
        \/ Has(last.params, "patientNumber"))
    => last.outcome.key # "Text"

\* C4: with window.db connected, an unknown tool whose params do not carry
\* both patientName and date succeeds with params.response, else
\* params.message, else the fixed acknowledgement; it calls window.db not at
\* all and leaves the stored records and DataCache as they were.
C4_UnknownToolIsAcknowledged ==
    [][(/\ last'.tool \in UnknownTools /\ last'.conn
        /\ ~(Has(last'.params, "patientName") /\ Has(last'.params, "date"))) =>
          /\ last'.outcome.success
          /\ last'.outcome.text =
                (IF Has(last'.params, "response") THEN last'.params.response
                 ELSE IF Has(last'.params, "message") THEN last'.params.message
                 ELSE Processed)
          /\ last'.trace = <<>>
          /\ db' = db
          /\ DataCache' = DataCache]_vars

C4_Witness ==
    /\ last.tool \in UnknownTools /\ last.conn
    /\ Has(last.params, "patientName") /\ ~Has(last.params, "date")
    /\ last.outcome.success /\ last.outcome.text = Processed
    /\ DataCache.appointments # <<>>

\* The required field of a create tool is missing from params (patient:
\* name; appointment: patient name or number, and date; deadline: title;
\* inventory: name).
RequiredFieldMissing(toolName, params) ==
    CASE KindOfCreate(toolName) = "patients" ->
            ~(Has(params, "name") \/ Has(params, "patientName"))
      [] KindOfCreate(toolName) = "appointments" ->
            \/ ~(Has(params, "patientName") \/ Has(params, "patient")
                    \/ Has(params, "patientNumber"))
            \/ ~Has(params, "date")
      [] KindOfCreate(toolName) = "deadlines" -> ~Has(params, "title")
      [] OTHER -> ~(Has(params, "name") \/ Has(params, "itemName"))

\* C5: a create tool called without its required field returns a failure
\* and makes no call into window.db at all.
C5_MissingFieldNoPersistenceCall ==
    (last.tool \in CreateTools /\ RequiredFieldMissing(last.tool, last.params)) =>
        /\ ~last.outcome.success
        /\ DbEvents(last.trace) = <<>>

\* C6: when a create tool returns success, the cached collection of its kind
\* holds exactly one record more than before the call, and the new record is
\* in the cache under the id window.db returned.
C6_CacheGrowsByOne ==
    [][(last'.tool \in CreateTools /\ last'.outcome.success) =>
          LET kind == KindOfCreate(last'.tool)
          IN /\ Len(DataCache'[kind]) = Len(DataCache[kind]) + 1
             /\ \E i \in 1..Len(DataCache'[kind]) :
                   DataCache'[kind][i].id = last'.outcome.data[1]]_vars

\* C7: in the run of a mutating tool, every render of the calendar or of the
\* schedule panel comes after an assignment to DataCache that itself comes
\* after the write: write, then cache refresh, then view refresh.
C7_WriteThenCacheThenView ==
    last.tool \in MutatingTools =>
        \A w, v \in 1..Len(last.trace) :
            (/\ IsWrite(last.trace[w], "ok")
             /\ last.trace[v].t = "view"
             /\ last.trace[v].kind \in {"calendar", "schedule"})
            => \E c \in (w + 1)..(v - 1) : last.trace[c].t = "cache"

C9_DeadlineDatesEqual ==
    \A i \in 1..Len(db.deadlines) : db.deadlines[i].date = db.deadlines[i].dueDate

RECURSIVE NumberOf(_)
\* The number a string of decimal digits denotes.
NumberOf(digits) ==
    IF digits = <<>> THEN 0
    ELSE 10 * NumberOf(SubSeq(digits, 1, Len(digits) - 1)) + DigitRank(digits[Len(digits)])

IsDigits(s) == \A i \in 1..Len(s) : DigitRank(s[i]) >= 0

\* d/m/yyyy: a one- or two-digit day and month and a four-digit year.
IsDayMonthYear(s) ==
    LET parts == Split(s, "/")
    IN /\ Len(parts) = 3
       /\ Len(parts[1]) \in 1..2 /\ Len(parts[2]) \in 1..2 /\ Len(parts[3]) = 4
       /\ \A i \in 1..3 : IsDigits(parts[i])

\* stored is the year-month-day form, zero-padded, of the day given.
IsCanonicalFormOf(stored, given) ==
    LET parts == Split(given, "/")
    IN /\ IsCanonicalDate(stored)
       /\ NumberOf(SubSeq(stored, 1, 4)) = NumberOf(parts[3])
       /\ NumberOf(SubSeq(stored, 6, 7)) = NumberOf(parts[2])
       /\ NumberOf(SubSeq(stored, 9, 10)) = NumberOf(parts[1])

\* The date a date-accepting create tool is given.
GivenDate(toolName, params) ==
    IF toolName = "create_deadline" /\ ~Has(params, "date")
    THEN Get(params, "dueDate")
    ELSE Get(params, "date")

\* C10: a date given as day/month/year to create_appointment or
\* create_deadline is stored as year-month-day with month and day padded to
\* two digits ('25/12/2024' as '2024-12-25').
C10_DayMonthYearStoredCanonical ==
    (/\ last.tool \in {"create_appointment", "create_deadline"}
     /\ last.outcome.success
     /\ IsDayMonthYear(GivenDate(last.tool, last.params))) =>
        LET records == db[KindOfCreate(last.tool)]
            given == GivenDate(last.tool, last.params)
        IN \E i \in 1..Len(records) :
              /\ records[i].id = last.outcome.data[1]
              /\ IsCanonicalFormOf(records[i].date, given)
              /\ last.tool = "create_deadline" => records[i].dueDate = records[i].date

C10_Witness ==
    /\ last.tool = "create_deadline" /\ last.outcome.success
    /\ GivenDate(last.tool, last.params) = DmyOtherDay
    /\ \E i \in 1..Len(db.deadlines) :
          db.deadlines[i].id = last.outcome.data[1] /\ db.deadlines[i].date = OtherDay

\* Every call into window.db of the run was answered.
AllAnswered(trace) == \A i \in 1..Len(trace) : trace[i].t = "db" => trace[i].r = "ok"

\* C11: a date that update_appointment or update_deadline writes is stored in
\* canonical year-month-day form, and a date that update_appointment or
\* delete_appointment compares with the stored dates is compared in that
\* form: given as day/month/year, newDate is stored canonical, and an
\* appointment of the patient on that day is found.
C11_UpdateDatesCanonical ==
    /\ (/\ last.tool \in {"edit_appointment", "update_deadline"}
        /\ last.outcome.success
        /\ IsDayMonthYear(Get(last.params, "newDate"))) =>
           LET records == IF last.tool = "update_deadline" THEN db.deadlines
                          ELSE db.appointments
           IN \E i \in 1..Len(records) :
                 /\ records[i].id = last.outcome.data[1]
                 /\ IsCanonicalFormOf(records[i].date, Get(last.params, "newDate"))
    /\ (/\ last.tool \in {"edit_appointment", "delete_appointment"}
        /\ last.conn /\ AllAnswered(last.trace)
        /\ IsDayMonthYear(Get(last.params, "date"))
        /\ ~last.outcome.success) =>
           ~\E i \in 1..Len(db.appointments) :
                 /\ Matches(db.appointments[i].patientName, Get(last.params, "patientName"))
                 /\ IsCanonicalFormOf(db.appointments[i].date, Get(last.params, "date"))

\* The collection an update tool writes to.
KindOfUpdate(toolName) ==
    CASE toolName = "update_patient" -> "patients"
      [] toolName = "edit_appointment" -> "appointments"
      [] toolName = "update_deadline" -> "deadlines"
      [] OTHER -> "inventory"

\* The fields an update tool can replace and the parameter that carries the
\* new value: <<field, parameter, numeric>>.
UpdatableFields(toolName) ==
    CASE toolName = "update_patient" ->
            {<<"name", "newName", FALSE>>, <<"dob", "newDob", FALSE>>,
             <<"phone", "newPhone", FALSE>>, <<"email", "newEmail", FALSE>>}
      [] toolName = "edit_appointment" ->
            {<<"date", "newDate", FALSE>>, <<"time", "newTime", FALSE>>,
             <<"type", "newType", FALSE>>, <<"status", "newStatus", FALSE>>,
             <<"notes", "newNotes", FALSE>>}
      [] toolName = "update_deadline" ->
            {<<"title", "newTitle", FALSE>>, <<"date", "newDate", FALSE>>,
             <<"priority", "newPriority", FALSE>>,
             <<"description", "newDescription", FALSE>>}
      [] OTHER ->
            {<<"name", "newName", FALSE>>, <<"category", "newCategory", FALSE>>,
             <<"unit", "newUnit", FALSE>>, <<"quantity", "newQuantity", TRUE>>,
             <<"minStock", "newMinStock", TRUE>>}

\* The parameter of m counts as given: when anyPresent, as soon as it is in
\* the parameter set; otherwise only with a value (any number, or a
\* non-empty string).
Given(params, m, anyPresent) ==
    /\ m[2] \in DOMAIN params
    /\ anyPresent \/ m[3] \/ params[m[2]] # Empty

\* The records after the update of the record id: its fields whose
\* parameter is given are replaced by the parameter.
UpdatedRecords(records, id, toolName, params, anyPresent) ==
    [i \in 1..Len(records) |->
        IF records[i].id # id THEN records[i]
        ELSE [f \in DOMAIN records[i] |->
                IF \E m \in UpdatableFields(toolName) :
                      m[1] = f /\ Given(params, m, anyPresent)
                THEN params[(CHOOSE m \in UpdatableFields(toolName) :
                                m[1] = f /\ Given(params, m, anyPresent))[2]]
                ELSE records[i][f]]]

C13_UpdateIdempotent ==
    [][(/\ last.tool \in UpdateTools /\ last.outcome.success
        /\ last'.tool = last.tool /\ last'.params = last.params) =>
          db' = db]_vars

\* The collection an update or delete tool writes to.
KindOfWrite(toolName) ==
    CASE toolName \in {"update_patient", "delete_patient"} -> "patients"
      [] toolName \in {"edit_appointment", "delete_appointment"} -> "appointments"
      [] toolName \in {"update_deadline", "delete_deadline"} -> "deadlines"
      [] OTHER -> "inventory"

\* The records of the sequence but the one with the id.
Others(records, id) == SelectSeq(records, LAMBDA r : r.id # id)

\* C14: an update or delete call that supplies a record id acts on the
\* record with that id: when it succeeds, the record with the supplied id is
\* the one updated or deleted and every other record is as before.
C14_TargetResolvedById ==
    [][(/\ last'.tool \in UpdateTools \cup DeleteTools
        /\ "id" \in DOMAIN last'.params
        /\ last'.outcome.success) =>
          LET kind == KindOfWrite(last'.tool)
              id == last'.params.id
          IN /\ Others(db'[kind], id) = Others(db[kind], id)
             /\ last'.tool \in DeleteTools =>
                   ~\E i \in 1..Len(db'[kind]) : db'[kind][i].id = id]_vars

\* The collection an update, delete or detail tool resolves its target in,
\* and the field it searches.
KindOfTarget(toolName) ==
    CASE toolName = "get_patient" -> "patients"
      [] toolName = "get_deadline" -> "deadlines"
      [] OTHER -> KindOfWrite(toolName)

SearchedField(kind) ==
    CASE kind = "patients" -> "name"
      [] kind = "appointments" -> "patientName"
      [] kind = "deadlines" -> "title"
      [] OTHER -> "name"

\* The name or title the call searches for.
SearchTerm(toolName, params) ==
    CASE toolName \in {"update_patient", "delete_patient"} ->
            Or(Get(params, "patientName"), Get(params, "name"))
      [] toolName \in {"edit_appointment", "delete_appointment", "get_patient"} ->
            Get(params, "patientName")
      [] toolName = "update_deadline" -> Or(Get(params, "title"), Get(params, "oldTitle"))
      [] toolName \in {"delete_deadline", "get_deadline"} -> Get(params, "title")
      [] OTHER -> Or(Get(params, "name"), Get(params, "itemName"))

\* The positions of the records whose searched field contains the term.
MatchingPositions(records, field, term) ==
    {i \in 1..Len(records) : Matches(records[i][field], term)}

\* C15: an update, delete or detail call without an id whose search term no
\* record's name or title contains returns a failure that names the term and
\* writes nothing; when records match and the call succeeds, its target is
\* the first match in collection order.
C15_NotFoundNamesTerm ==
    [][(/\ last'.tool \in UpdateTools \cup DeleteTools \cup DetailTools
        /\ last'.conn
        /\ "id" \notin DOMAIN last'.params) =>
          LET kind == KindOfTarget(last'.tool)
              term == SearchTerm(last'.tool, last'.params)
              matching == MatchingPositions(db[kind], SearchedField(kind), term)
          IN /\ matching = {} =>
                   /\ ~last'.outcome.success
                   /\ last'.outcome.text = term
                   /\ ~\E i \in 1..Len(last'.trace) : last'.trace[i].t = "db"
                                                      /\ last'.trace[i].op \in WriteOps
                   /\ db' = db
             /\ (matching # {} /\ last'.outcome.success) =>
                   \E i \in matching :
                      /\ db[kind][i].id = last'.outcome.data[1]
                      /\ last'.tool \notin {"edit_appointment", "delete_appointment"} =>
                            \A j \in matching : i <= j]_vars

\* The ids list_patients would report from the state after the step.
ListedAfter ==
    listPatients([db |-> db', cache |-> DataCache', sel |-> selectedCalendarDate',
                  nextId |-> nextId', trace |-> <<>>], connected, OkEnv).outcome.data

\* The step is a successful delete_patient by the name the preceding call,
\* a successful create_patient, has just created.
DeletesJustCreated ==
    /\ last.tool = "create_patient" /\ last.outcome.success
    /\ "name" \in DOMAIN last.params
    /\ last'.tool = "delete_patient" /\ last'.outcome.success
    /\ last'.params.patientName = last.params.name

\* C16: after create_patient with a name and then delete_patient with the
\* same name, list_patients does not include the created patient, the
\* persisted and the cached patient collection hold exactly one record fewer
\* than before the delete, and no other patient is removed.
C16_CreateThenDeleteRemovesIt ==
    [][DeletesJustCreated =>
          LET created == last.outcome.data[1]
          IN /\ \A i \in 1..Len(ListedAfter) : ListedAfter[i] # created
             /\ Len(db'.patients) = Len(db.patients) - 1
             /\ Len(DataCache'.patients) = Len(db.patients) - 1
             /\ \A i \in 1..Len(db.patients) :
                   db.patients[i].id # created =>
                      \E j \in 1..Len(db'.patients) : db'.patients[j] = db.patients[i]]_vars

\* The state a refresh leaves when window.db fails its reads, for each of
\* the five loaders, started from the current state.
FailedRefreshes ==
    LET st == [Bundle EXCEPT !.trace = <<>>]
    IN {loadPatients(st, TRUE, FALSE), loadAppointments(st, TRUE, FALSE),
        loadDeadlines(st, TRUE, FALSE), loadInventory(st, TRUE, FALSE),
        loadStats(st, TRUE, FALSE)}

\* A collection has been cached by an earlier load.
SnapshotCached == \E kind \in Kinds : Len(DataCache[kind]) > 0

\* C17: a cache refresh after the initial load whose persistence read fails
\* leaves every cached collection as it was and surfaces an error state.
C17_FailedRefreshKeepsSnapshot ==
    (connected /\ SnapshotCached) =>
       \A st \in FailedRefreshes :
          /\ st.cache = DataCache
          /\ \E i \in 1..Len(st.trace) : st.trace[i].t = "view" /\ st.trace[i].r # "ok"

\* The latest call was a mutating handler that returned success with all of
\* its persistence calls answered.
MutationReturned ==
    /\ last.tool \in CreateTools \cup UpdateTools \cup DeleteTools
    /\ last.conn
    /\ last.outcome.success
    /\ AllAnswered(last.trace)

\* The collection the latest call wrote to.
KindOfLast ==
    IF last.tool \in CreateTools THEN KindOfCreate(last.tool) ELSE KindOfWrite(last.tool)

\* C18: once a mutating handler has returned success, the cached collection
\* it wrote to equals the persisted one at every later moment, also when a
\* view refresh that was suspended at its reads resumes afterwards.
C18_CacheReflectsReturnedMutation ==
    MutationReturned => DataCache[KindOfLast] = db[KindOfLast]

\* A text that is the JSON encoding of an action proposal for a tool other
\* than the no-op 'answer_question'.
EmbedsAction(text) ==
    text.kind = "object" /\ text.obj.tool \notin {"", "answer_question"}

\* The response or message field of the reply as the backend sent it (for
\* an answer_question reply, the response among its parameters).
TextField(reply) ==
    IF TruthyText(reply.response) THEN reply.response
    ELSE IF TruthyText(reply.message) THEN reply.message
    ELSE IF Truthy(Get(reply.parameters, "response"))
         THEN Plain(Get(reply.parameters, "response"))
         ELSE NoText

\* C19: the router resolves a reply in a fixed order. A top-level tool other
\* than 'answer_question' is dispatched with its parameters, whatever the
\* response and message fields hold; else a response or message field is
\* dispatched when it embeds an action proposal and shown as text when it
\* does not; else a failure payload shows its reason; else the generic
\* acknowledgement is shown.
C19_RouterResolutionOrder ==
    chat # NoChat =>
       LET reply == chat.reply
           text == TextField(reply)
       IN IF reply.tool \notin {"", "answer_question"}
          THEN /\ chat.branch = "tool"
               /\ last.tool = reply.tool
               /\ last.params = reply.parameters
          ELSE IF TruthyText(text)
          THEN IF EmbedsAction(text)
               THEN /\ chat.branch \in {"tool", "embedded"}
                    /\ last.tool = text.obj.tool
                    /\ last.params = text.obj.parameters
               ELSE /\ chat.branch = "text"
                    /\ text.kind # "object" => chat.shown = text
          ELSE IF reply.success = "false" /\ Truthy(reply.error)
          THEN chat.branch = "error" /\ chat.shown = Plain(reply.error)
          ELSE chat.branch = "generic"

\* C20: when the response or message field of a reply is the JSON encoding
\* of an action proposal, whatever its tool, that raw text is not what the
\* router appends to the transcript.
C20_RawProposalNeverShown ==
    chat # NoChat =>
       \A text \in {chat.reply.response, chat.reply.message} :
          (text.kind = "object" /\ text.obj.tool # "") => chat.shown # text

\* The thinking placeholder of a turn is in the transcript.
PlaceholderShown(turn) ==
    \E i \in 1..Len(convo.nodes) :
       convo.nodes[i].turn = turn /\ convo.nodes[i].kind = "thinking"

TurnDone(turn) == turn \in 1..Len(convo.turns) /\ convo.turns[turn].stage = "done"

\* C21: on every path on which the backend call of a turn completes, the
\* placeholder of the turn has been removed exactly once: it was taken out
\* of the transcript one time and is no longer in it.
C21_PlaceholderRemovedOnce ==
    \A turn \in 1..MaxTurns :
       TurnDone(turn) => convo.turns[turn].removed = 1 /\ ~PlaceholderShown(turn)

\* The assistant messages of a turn in a transcript.
AssistantNodes(nodes, turn) ==
    SelectSeq(nodes, LAMBDA node : node.turn = turn /\ node.kind = "assistant")

\* The step ends a retrieval-mode turn.
RagTurnEnds(turn) ==
    /\ turn \in 1..Len(convo.turns)
    /\ convo.turns[turn].mode = "rag"
    /\ convo.turns[turn].stage = "waiting"
    /\ convo'.turns[turn].stage = "done"

\* C22: a retrieval-mode turn never calls ToolExecutor.execute and never
\* writes to persistence, whatever the answer of the backend carries; when
\* the retrieval backend fails, the turn appends one error message and ends.
C22_RetrievalModeOnlyAnswers ==
    [][\A turn \in 1..MaxTurns :
          RagTurnEnds(turn) =>
             /\ last' = NoCall
             /\ db' = db /\ nextId' = nextId /\ DataCache' = DataCache
             /\ convo'.turns[turn].answer = "failure" =>
                   /\ Len(AssistantNodes(convo'.nodes, turn)) = 1
                   /\ AssistantNodes(convo'.nodes, turn)[1].says = "RagError"
                   /\ AssistantNodes(convo'.nodes, turn)[1].marked]_vars

C22_Witness ==
    \E turn \in 1..Len(convo.turns) :
       /\ convo.turns[turn].mode = "rag" /\ convo.turns[turn].api
       /\ TurnDone(turn)
       /\ convo.turns[turn].answer = "failure"
       /\ Len(AssistantNodes(convo.nodes, turn)) = 1
       /\ AssistantNodes(convo.nodes, turn)[1].says = "RagError"

\* The backend call of the turn never returns.
Hung(turn) == turn \in 1..Len(convo.turns) /\ convo.turns[turn].hangs

\* The turn has run to its end: a reply is appended and its placeholder is
\* no longer in the transcript.
ProcessedToCompletion(turn) ==
    /\ TurnDone(turn)
    /\ Len(AssistantNodes(convo.nodes, turn)) > 0
    /\ ~PlaceholderShown(turn)

\* C23: a backend call that never returns blocks only its own turn. Its
\* placeholder stays, and every message sent after it whose call returns is
\* eventually processed to completion.
C23_HangBlocksOnlyItsTurn ==
    \A hung \in 1..MaxTurns : \A turn \in 1..MaxTurns :
       /\ [](Hung(hung) => PlaceholderShown(hung))
       /\ (Hung(hung) /\ hung < turn /\ turn \in 1..Len(convo.turns) /\ ~Hung(turn))
             ~> ProcessedToCompletion(turn)


\* C24: for a fixed cache, linking the linker's own output again changes nothing.
C24_LinkifyIdempotent ==
    html.stage = "relinked" => html.twice = html.once

\* A message in which the linker wrote an annotation has been linked twice.
C24_Witness ==
    /\ html.stage = "relinked"
    /\ html.once # html.text
    /\ html.twice = html.once

Tags(text) == SelectSeq(text, LAMBDA token : token.kind = "tag")

\* C25: linking leaves the tags of the input as they were and in their order, and
\* writes no annotation inside a tag or inside the annotation of an earlier scan.
C25_LinkifyKeepsMarkup ==
    html.stage \in {"linked", "relinked"} =>
        /\ Tags(html.once) = Tags(html.text)
        /\ \A i \in 1..Len(html.once) :
              /\ html.once[i].kind # "placeholder"
              /\ html.once[i].markup => html.once[i].inside = 0
              /\ html.once[i].inside <= 1


\* C26: once the activation of an annotation of kind K and id I has been handled
\* and its delayed edit step has run, view K is active and record I is being edited.
C26_ActivationOpensRecord ==
    (nav.clicked.type # "none" /\ ~nav.timer) =>
        /\ nav.view = ViewOf(nav.clicked.type)
        /\ nav.editingId = nav.clicked.id


\* The messages with which the router reports a failure of its own.
RouterFailures == {"TroubleConnecting", "FriendlyError", "RagError", "BackendError"}

\* C27: every failure message shown starts with the failure marker and no success
\* message does: an outcome has success = FALSE exactly when its message carries the
\* marker, and every failure message of the router carries it, the one for a
\* missing assistant backend included.
C27_FailuresCarryMarker ==
    /\ last # NoCall => (last.outcome.success = FALSE <=> StartsWithMarker(last.outcome))
    /\ \A i \in 1..Len(convo.nodes) :
          convo.nodes[i].kind = "assistant" =>
              /\ convo.nodes[i].says \in RouterFailures => convo.nodes[i].marked
              /\ convo.nodes[i].says \in {"Generic", "RagAnswer"} => ~convo.nodes[i].marked


\* C28: ToolExecutor.execute never lets a fault escape: whatever the action name and
\* the parameters are and whatever persistence does, the call returns an outcome, and
\* a write that threw is reported as a failure.
C28_ExecuteNeverThrows ==
    last # NoCall =>
        /\ last.outcome # Escaped
        /\ WriteThrew(last.trace) => (~last.outcome.success /\ StartsWithMarker(last.outcome))

\* A note was to be added and the write threw.
C28_Witness ==
    /\ last # NoCall
    /\ last.tool = "add_patient_note"
    /\ WriteThrew(last.trace)
    /\ last.outcome.key = "AddNoteFailed"


\* C29: with the persistence collaborator absent every Database read returns an empty
\* collection, every Database write raises, and a read action dispatched through
\* ToolExecutor.execute yields an empty result, not an error.
C29_AbsentCollaboratorDegrades ==
    ~connected =>
        /\ \A kind \in Kinds : DatabaseGet(Bundle, connected, TRUE, kind).data = <<>>
        /\ DatabaseSearchPatients(Bundle, connected, TRUE, Jane).data = <<>>
        /\ DatabaseCreate(Bundle, connected, "ok", "patients", [name |-> Bob]).threw
        /\ DatabaseUpdate(Bundle, connected, "ok", "patients", 1, [name |-> Bob]).threw
        /\ DatabaseDelete(Bundle, connected, "ok", "patients", 1).threw
        /\ (last # NoCall /\ last.tool \in ReadTools) =>
               (last.outcome.success /\ last.outcome.data = <<>>)


ListCap(kind) ==
    CASE kind = "patients" -> PatientListCap
      [] kind = "appointments" -> AppointmentListCap
      [] kind = "deadlines" -> DeadlineListCap
      [] kind = "inventory" -> InventoryListCap

\* The number of stored records the list action of the kind is about.
MatchingRecords(kind, params) ==
    CASE kind = "patients" -> Len(db.patients)
      [] kind = "appointments" ->
             Cardinality({i \in 1..Len(db.appointments) : IsUpcoming(db.appointments[i].date)})
      [] kind = "deadlines" ->
             Cardinality({i \in 1..Len(db.deadlines) : IsUpcoming(DeadlineDate(db.deadlines[i]))})
      [] kind = "inventory" ->
             IF Truthy(Get(params, "lowStock"))
             THEN Cardinality({i \in 1..Len(db.inventory) : isLow(db.inventory[i])})
             ELSE Len(db.inventory)

\* The read of the list action was answered.
ListAnswered ==
    /\ last # NoCall
    /\ \E i \in 1..Len(last.trace) : last.trace[i].t = "db" /\ last.trace[i].r = "ok"

\* C30: a list action shows at most the display cap of its kind and, when more records
\* match than the cap, its message carries the number of the remaining ones.
C30_ListsCapAndCount ==
    ListAnswered =>
        /\ Len(last.outcome.shown) <= ListCap(topic)
        /\ Len(last.outcome.shown) = IF MatchingRecords(topic, last.params) > ListCap(topic)
                                     THEN ListCap(topic)
                                     ELSE MatchingRecords(topic, last.params)
        /\ MatchingRecords(topic, last.params) > ListCap(topic) =>
               last.outcome.more = MatchingRecords(topic, last.params) - ListCap(topic)


Badges == <<stock.row, stock.list, stock.search>>

\* C31: with a minimum stock of 10 an item with quantity 5 and one with quantity 10
\* are low and one with quantity 11 is not, in the inventory table and in the list
\* and search handlers.
C31_LowStockBoundaryInclusive ==
    (stock.item # <<>> /\ stock.item.minStock = <<10>>) =>
        \A k \in 1..3 :
            /\ (stock.item.quantity \in {<<5>>, <<10>>} /\ Badges[k] # "none")
                   => Badges[k] = "low"
            /\ (stock.item.quantity = <<11>> /\ Badges[k] # "none") => Badges[k] = "ok"

\* An item at the boundary has been classified in all three places.
C31_Witness ==
    /\ stock.item # <<>>
    /\ stock.item.quantity = <<10>>
    /\ stock.item.minStock = <<10>>
    /\ Badges = <<"low", "low", "low">>

\* The item's own threshold: its minStock, else its minimumStock, else the default.
Threshold(item) ==
    IF item.minStock # Undefined THEN item.minStock[1]
    ELSE IF item.minimumStock # Undefined THEN item.minimumStock[1]
    ELSE DefaultMinStock

\* C32: every place that shows or filters low stock computes the same classification
\* of an item, and it is low exactly when the quantity is at most the item's own
\* threshold, also when that threshold is 0 or is stored as minimumStock.
C32_OneLowStockClassification ==
    stock.item # <<>> =>
        \A k \in 1..3 :
            Badges[k] # "none" =>
                Badges[k] = Badge(OrNum(stock.item.quantity, <<0>>)[1] <= Threshold(stock.item))


\* The stored records whose searched field contains the query, case-insensitively.
AllMatches(kind, query) ==
    SelectSeq(db[kind],
              LAMBDA rec : CASE kind = "patients" -> Matches(rec.name, query)
                             [] kind = "deadlines" -> Matches(rec.title, query)
                             [] kind = "inventory" -> Matches(rec.name, query)
                                                      \/ Matches(rec.category, query))

\* C33: a search action returns every record whose searched field contains the query
\* case-insensitively, however many there are.
C33_SearchReturnsAllMatches ==
    ListAnswered => last.outcome.data = Ids(AllMatches(topic, last.params.query))


\* C34: whatever parameter values create_inventory_item and update_inventory_item are
\* called with, every inventory record in persistence has an integer quantity >= 0.
C34_StoredQuantityNonNegative ==
    \A i \in 1..Len(db.inventory) : db.inventory[i].quantity \in Nat


\* The turns of the assistant messages of the transcript, in document order.
AssistantTurns(c) ==
    LET shown == SelectSeq(c.nodes, LAMBDA node : node.kind = "assistant")
    IN [i \in 1..Len(shown) |-> shown[i].turn]

\* The turns that reach their end in this step.
Completing ==
    {turn \in 1..Len(convo'.turns) :
        /\ convo'.turns[turn].stage = "done"
        /\ turn \in 1..Len(convo.turns) => convo.turns[turn].stage # "done"}

\* C35: a turn that ends (reply received, backend missing, or call thrown) appends
\* exactly one assistant message, after all earlier ones, on every branch of the router;
\* so the assistant messages stand in the order in which the turns completed.
C35_OneAssistantMessagePerTurn ==
    [][/\ \A turn \in Completing :
              AssistantTurns(convo') = Append(AssistantTurns(convo), turn)
       /\ Completing = {} => AssistantTurns(convo') = AssistantTurns(convo)]_vars

\* Turn 2 completed before turn 1, and then turn 1 completed.
C35_Witness ==
    /\ Len(convo.turns) = 2
    /\ \A turn \in 1..2 : convo.turns[turn].stage = "done"
    /\ AssistantTurns(convo) = <<2, 1>>
    /\ convo.turns[1].answer = "throws"


\* What a turn of a mode can show at its end.
ShownBy(mode) ==
    IF mode = "rag"
    THEN {"RagAnswer", "RagError", "FriendlyError"}
    ELSE {"TroubleConnecting", "FriendlyError", "FriendlyResponse", "Result", "Text",
          "BackendError", "Generic"}

\* C36: a reply is handled in the mode its message was sent in, also when the mode was
\* switched while the call was outstanding: the reply of a retrieval-mode turn is never
\* dispatched, and each turn ends with a message of its own mode.
C36_ReplyHandledInSendMode ==
    [][\A turn \in Completing :
          /\ convo'.turns[turn].mode = "rag" =>
                last' = NoCall /\ db' = db /\ nextId' = nextId /\ DataCache' = DataCache
          /\ convo'.nodes[Len(convo'.nodes)].turn = turn
          /\ convo'.nodes[Len(convo'.nodes)].says \in ShownBy(convo'.turns[turn].mode)]_vars

\* A retrieval-mode message was sent, the mode was switched to tool-mode while its
\* call was outstanding, and then its answer arrived.
C36_Witness ==
    /\ Len(convo.turns) >= 1
    /\ convo.turns[1].mode = "rag" /\ convo.turns[1].stage = "done"
    /\ convo.turns[1].answer = "answer"
    /\ aiMode = "mcp"
    /\ \E i \in 1..Len(convo.nodes) :
          /\ convo.nodes[i].turn = 1 /\ convo.nodes[i].says = "RagAnswer"
          /\ \E j \in 1..(i - 1) :
                /\ convo.nodes[j].turn = 0 /\ convo.nodes[j].kind = "assistant"
                /\ \E k \in 1..(j - 1) : convo.nodes[k].turn = 1 /\ convo.nodes[k].kind = "user"


\* The actions named get_, list_ or search_.
ReadNamedTools ==
    {"search_patients", "list_patients", "get_patients", "get_patient", "get_patient_notes",
     "list_appointments", "get_appointments", "get_appointment",
     "get_appointments_for_date", "get_appointments_by_date",
     "list_upcoming_deadlines", "list_deadlines", "get_deadlines", "get_deadline",
     "get_deadline_details", "get_deadlines_for_date", "get_deadlines_by_date",
     "search_deadlines", "list_inventory_items", "get_inventory", "list_inventory",
     "search_inventory", "get_low_stock", "list_low_stock"}

\* C37: an action named get_, list_ or search_ makes no create, update or delete call
\* on persistence, whatever its parameters.
C37_ReadNamedActionsDoNotWrite ==
    (last # NoCall /\ last.tool \in ReadNamedTools) =>
        \A i \in 1..Len(last.trace) :
            ~(last.trace[i].t = "db" /\ last.trace[i].op \in WriteOps)


\* The call supplies no identifying name or title: the parameter is missing or empty.
Unnamed(params) == \A key \in DOMAIN params \cap {"patientName", "name", "title"} : params[key] = Empty

\* C38: an update or delete action that supplies no identifying name or title returns a
\* failure and makes no update or delete call on persistence.
C38_UnnamedMutationChangesNothing ==
    (last # NoCall /\ Unnamed(last.params)) =>
        /\ ~last.outcome.success
        /\ \A i \in 1..Len(last.trace) :
              ~(last.trace[i].t = "db" /\ last.trace[i].op \in WriteOps)


\* This step creates an appointment or a deadline dated other than the displayed day.
CreatesOffDisplayedDate ==
    /\ last'.tool \in {"create_appointment", "create_deadline"}
    /\ last'.outcome.success
    /\ LET kind == KindOfCreate(last'.tool)
       IN /\ Len(db'[kind]) = Len(db[kind]) + 1
          /\ db'[kind][Len(db'[kind])].date # selectedCalendarDate

\* C39: creating an appointment or deadline for a date other than the displayed schedule
\* date leaves selectedCalendarDate unchanged.
C39_CreateKeepsDisplayedDate ==
    [][CreatesOffDisplayedDate => selectedCalendarDate' = selectedCalendarDate]_vars


\* window.db answered the write of the call with a failure reply.
WriteFailed(trace) == \E i \in 1..Len(trace) : IsWrite(trace[i], "failed")

\* C40: a create, update or delete handler returns success only if the persistence
\* write succeeded: when window.db answers the write with a failure reply instead of
\* throwing, the outcome is a failure.
C40_FailureReplyIsFailure ==
    (last # NoCall /\ WriteFailed(last.trace)) => ~last.outcome.success

====
